---- MODULE Spec2Model ----
(***************************************************************************)
(* LabPlan: a browser-resident laboratory scheduling application.          *)
(* A model of src/index.tsx: calendar arithmetic, ICS parsing, initials    *)
(* matching, the booking store, the template engine, status resolution     *)
(* and the absence import / reprocess pipeline.                            *)
(*                                                                         *)
(* Representation.                                                         *)
(*  - A JavaScript Date is its time value in hours since 1970-01-01T00:00  *)
(*    UTC; InvalidDate stands for the NaN time value.  The runtime's zone  *)
(*    is a fixed offset tz (hours east of UTC); local components of a Date *)
(*    are read from the instant shifted by tz.                             *)
(*  - A "YYYY-MM-DD" string is the number YYYYMMDD: zero padding makes the *)
(*    string order the numeric order.  NaNDateStr stands for the string    *)
(*    "NaN-NaN-NaN", which sorts after every digit string.                 *)
(*  - Free text (ids, initials, summaries, template keys) is a sequence of *)
(*    one-character strings.                                               *)
(***************************************************************************)
EXTENDS Integers, Sequences, FiniteSets, TLC

VARIABLES
    tz,                 \* the runtime's UTC offset in hours
    call, ret, pc,      \* one call of a pure function: arguments, result, position
    \* the snapshot (AppData, src/index.tsx 95-109)
    personnel,          \* sequence of [id, initials, fixedAbsences]
    absenceTypes,       \* sequence of [id, name]
    absences,           \* sequence of [id, personnelId, startDate, endDate, typeId, note]
    unprocessedAbsences,\* sequence of [id, summary, startDate, endDate, failureReason]
    bookings,           \* sequence of [id, instrumentId, personnelId, date, slot, note]
    templates,          \* sequence of [id, positionalBookings]
    statusOverrides,    \* function from <<personId, date, slot>> to a type id or "present"
    \* component state
    currentDate,        \* DashboardView: the Date whose week is shown
    bookingModal,       \* DashboardView: the grid cell being edited, or NoModal
    quickBookingModal,  \* DashboardView: the personnel cell being booked, or NoModal
    editingStatus,      \* DashboardView: the status cell whose picker is open, or NoModal
    selectedTemplateId, \* DashboardView: the template chosen in the select, 0 for ''
    confirmation,       \* DashboardView: the pending confirmation dialog
    isNamingTemplate,   \* DashboardView: the template name prompt is open
    pendingImport,      \* AbsenceManager: a FileReader in flight with its closure
    nextId,             \* the next value of Date.now() / Math.random() ids
    lastOp,             \* what the last handler did (for properties over runs)
    \* the App component and the browser around it (src/index.tsx 657-691)
    location,           \* window.location: the mode parameter and the data of the hash
    isReadOnly,         \* App: the page was opened with ?mode=readonly
    appData,            \* App: the state `data`, the snapshot as a JSON document
    view,               \* App: 'dashboard' | 'dataManagement' | 'analisi'
    store,              \* localStorage: what is kept under the key labPlannerData
    editing,            \* CrudComponent (personnel): the record in the form, or NoEditing
    backupReader,       \* DataBackupManager: a FileReader in flight with its file
    mounted,            \* App: the effects of the first render have run
    \* the service worker (src/sw.js)
    worker,             \* its lifecycle: "none" | "installing" | "activated" | "redundant"
    caches,             \* CacheStorage: the response kept for each URL, or Undefined
    fetchEvents         \* the fetch events dispatched so far, each with its handler's position

calVars == <<call, ret, pc>>
dataVars == <<personnel, absenceTypes, absences, unprocessedAbsences, bookings,
              templates, statusOverrides>>
uiVars == <<currentDate, bookingModal, quickBookingModal, editingStatus, selectedTemplateId,
            confirmation, isNamingTemplate, pendingImport, nextId, lastOp>>
appVars == <<location, isReadOnly, appData, view, store, editing, backupReader, mounted>>
swVars == <<worker, caches, fetchEvents>>
vars == <<tz, swVars, calVars, dataVars, uiVars, appVars>>

\* no service worker registered (the specifications of the page itself)
NoWorker ==
    /\ worker = "none"
    /\ caches = <<>>
    /\ fetchEvents = <<>>

----------------------------------------------------------------------------
(* Bounds *)

\* UTC offsets of the runtimes considered (hours east of UTC)
TzOffsets == {0 - 5, 0, 1}

\* calendar years whose days are enumerated
FirstYear == 2019
LastYear == 2026

\* largest number of working days added by addWorkingDays
MaxWorkingDays == 4

\* largest number of people the personnel form lets the list grow to
MaxPersons == 2

----------------------------------------------------------------------------
(* Civil calendar = what the Date object computes internally *)

HoursPerDay == 24

InvalidDate == 0 - 1
NaNDateStr == 99999999

IsLeap(y) == (y % 4 = 0 /\ y % 100 # 0) \/ y % 400 = 0

DaysInMonth(y, m) ==
    IF m = 2 THEN (IF IsLeap(y) THEN 29 ELSE 28)
    ELSE IF m \in {4, 6, 9, 11} THEN 30 ELSE 31

\* days from 1970-01-01 to y-m-d (m in 1..12), proleptic Gregorian, y >= 1970
DaysFromCivil(y, m, d) ==
    LET yy == IF m <= 2 THEN y - 1 ELSE y
        era == yy \div 400
        yoe == yy - era * 400
        mp == (m + 9) % 12
        doy == (153 * mp + 2) \div 5 + d - 1
        doe == yoe * 365 + yoe \div 4 - yoe \div 100 + doy
    IN era * 146097 + doe - 719468

\* the inverse: day number to [y, m, d]
CivilFromDays(n) ==
    LET z == n + 719468
        era == z \div 146097
        doe == z - era * 146097
        yoe == (doe - doe \div 1460 + doe \div 36524 - doe \div 146096) \div 365
        doy == doe - (365 * yoe + yoe \div 4 - yoe \div 100)
        mp == (5 * doy + 2) \div 153
        d == doy - (153 * mp + 2) \div 5 + 1
        m == IF mp < 10 THEN mp + 3 ELSE mp - 9
        y == yoe + era * 400 + (IF m <= 2 THEN 1 ELSE 0)
    IN [y |-> y, m |-> m, d |-> d]

\* 1970-01-01 was a Thursday; 0 = Sunday .. 6 = Saturday
WeekdayOfDay(n) == (n + 4) % 7

\* Date.UTC(y, m, d) / new Date(Date.UTC(..)): UTC midnight of a civil day
DateUTC(y, m, d) == DaysFromCivil(y, m, d) * HoursPerDay

\* new Date(y, m, d): local midnight of a civil day
DateLocal(y, m, d) == DaysFromCivil(y, m, d) * HoursPerDay - tz

\* the UTC and the local day number of an instant
UTCDay(date) == date \div HoursPerDay
LocalDay(date) == (date + tz) \div HoursPerDay

getFullYear(date) == CivilFromDays(LocalDay(date)).y
getMonth1(date) == CivilFromDays(LocalDay(date)).m
getDate(date) == CivilFromDays(LocalDay(date)).d
getDay(date) == WeekdayOfDay(LocalDay(date))
getUTCDay(date) == WeekdayOfDay(UTCDay(date))
getUTCFullYear(date) == CivilFromDays(UTCDay(date)).y

\* date.setDate(date.getDate() + k) and date.setUTCDate(date.getUTCDate() + k)
\* in a fixed-offset zone: the same time of day, k days later
ShiftDays(date, k) == IF date = InvalidDate THEN InvalidDate ELSE date + k * HoursPerDay

----------------------------------------------------------------------------
(* Calendar arithmetic, src/index.tsx 116-188 *)

\* a week-year taken from the date itself instead of from its week's Thursday
getISOWeekYearOfDate(date) == getFullYear(date)

getISOWeekYear(date) ==
    LET d == DateUTC(getFullYear(date), getMonth1(date), getDate(date))
        dayNum == IF getUTCDay(d) = 0 THEN 7 ELSE getUTCDay(d)
        thursday == ShiftDays(d, 4 - dayNum)
    IN getUTCFullYear(thursday)

getISOWeek(date) ==
    LET d == DateUTC(getFullYear(date), getMonth1(date), getDate(date))
        dayNum == IF getUTCDay(d) = 0 THEN 7 ELSE getUTCDay(d)
        thursday == ShiftDays(d, 4 - dayNum)
        yearStart == DateUTC(getUTCFullYear(thursday), 1, 1)
        days == (thursday - yearStart) \div HoursPerDay
    IN (days + 1 + 6) \div 7          \* Math.ceil((days + 1) / 7)

getWeekStartDate(year, week) ==
    LET jan4 == DateUTC(year, 1, 4)
        day == IF getUTCDay(jan4) = 0 THEN 7 ELSE getUTCDay(jan4)
        monday1 == ShiftDays(jan4, 0 - (day - 1))
        d == ShiftDays(monday1, (week - 1) * 7)
        c == CivilFromDays(UTCDay(d))
    IN DateLocal(c.y, c.m, c.d)

formatDate(date) ==
    IF date = InvalidDate THEN NaNDateStr
    ELSE getFullYear(date) * 10000 + getMonth1(date) * 100 + getDate(date)

addDays(date, days) == ShiftDays(date, days)

\* new Date(dateStr + 'T00:00:00'): local midnight of the day the string names
ParseLocalMidnight(dateStr) ==
    IF dateStr = NaNDateStr THEN InvalidDate
    ELSE DateLocal(dateStr \div 10000, (dateStr \div 100) % 100, dateStr % 100)

\* new Date(dateStr) for a date-only ISO string: UTC midnight of that day
ParseDateOnly(dateStr) ==
    IF dateStr = NaNDateStr THEN InvalidDate
    ELSE DateUTC(dateStr \div 10000, (dateStr \div 100) % 100, dateStr % 100)

\* a loop that skips Sundays only
RECURSIVE AddWorkingLoopSunday(_, _, _)
AddWorkingLoopSunday(date, added, days) ==
    IF added < days
    THEN LET next == ShiftDays(date, 1)
             dayOfWeek == getDay(next)
         IN AddWorkingLoopSunday(next,
                                 IF dayOfWeek # 0 THEN added + 1 ELSE added,
                                 days)
    ELSE date

RECURSIVE AddWorkingLoop(_, _, _)
AddWorkingLoop(date, added, days) ==
    IF added < days
    THEN LET next == ShiftDays(date, 1)
             dayOfWeek == getDay(next)
         IN AddWorkingLoop(next,
                           IF dayOfWeek # 0 /\ dayOfWeek # 6 THEN added + 1 ELSE added,
                           days)
    ELSE date

addWorkingDays(dateStr, days) ==
    formatDate(AddWorkingLoop(ParseLocalMidnight(dateStr), 0, days))

RECURSIVE CountWorkingLoop(_, _, _)
CountWorkingLoop(current, end, count) ==
    IF current <= end
    THEN LET dayOfWeek == getDay(current)
         IN CountWorkingLoop(ShiftDays(current, 1), end,
                             IF dayOfWeek # 0 /\ dayOfWeek # 6 THEN count + 1 ELSE count)
    ELSE count

countWorkingDays(start, end) == CountWorkingLoop(start, end, 0)

----------------------------------------------------------------------------
(* Values of the component state *)

NoModal == [open |-> FALSE]
NoConfirmation == [kind |-> "none"]
NoImport == [active |-> FALSE]
NoOp == [op |-> "none"]
EmptyMap == <<>>                \* {} : a function with an empty domain
NoEditing == [open |-> FALSE]
NoReader == [active |-> FALSE]
NoDocument == [t |-> "undefined"]
NoContent == [kind |-> "absent"]

\* the App component as the specifications of the other components leave it
AppIdle ==
    /\ location = [mode |-> "none", hash |-> NoContent]
    /\ isReadOnly = FALSE
    /\ appData = NoDocument
    /\ view = "dashboard"
    /\ store = NoContent
    /\ editing = NoEditing
    /\ backupReader = NoReader
    /\ mounted = TRUE

\* the application as the specifications of single functions leave it: an empty
\* snapshot (initialData, 297-317, without its absence types) and no dialog open
IdleApp ==
    /\ personnel = <<>>
    /\ absenceTypes = <<>>
    /\ absences = <<>>
    /\ unprocessedAbsences = <<>>
    /\ bookings = <<>>
    /\ templates = <<>>
    /\ statusOverrides = EmptyMap
    /\ currentDate = 0
    /\ bookingModal = NoModal
    /\ quickBookingModal = NoModal
    /\ editingStatus = NoModal
    /\ selectedTemplateId = 0
    /\ confirmation = NoConfirmation
    /\ isNamingTemplate = FALSE
    /\ pendingImport = NoImport
    /\ nextId = 1
    /\ lastOp = NoOp
    /\ AppIdle

----------------------------------------------------------------------------
(* Calendar specification: every day of FirstYear..LastYear is fed to the  *)
(* week functions and to addWorkingDays.                                   *)

AllDays == DaysFromCivil(FirstYear, 1, 1) .. DaysFromCivil(LastYear, 12, 31)

\* a Date for local day n, as DashboardView holds it (local midnight)
LocalMidnightOfDay(n) == n * HoursPerDay - tz

NoRet == [op |-> "none"]

InitCalendar ==
    /\ tz \in TzOffsets
    /\ NoWorker
    /\ call \in [op : {"week"}, day : AllDays]
            \cup [op : {"addWorkingDays"}, day : AllDays, n : 1..MaxWorkingDays]
    /\ ret = NoRet
    /\ pc = "call"
    /\ IdleApp

\* DashboardView 1362-1364: year, week, weekStartDate of currentDate
CallWeekStart ==
    /\ pc = "call"
    /\ call.op = "week"
    /\ LET shown == LocalMidnightOfDay(call.day)
           year == getISOWeekYear(shown)
           week == getISOWeek(shown)
       IN ret' = [op |-> "week", year |-> year, week |-> week,
                  weekStartDate |-> getWeekStartDate(year, week)]
    /\ pc' = "done"
    /\ UNCHANGED <<tz, swVars, call, dataVars, uiVars, appVars>>

CallAddWorkingDays ==
    /\ pc = "call"
    /\ call.op = "addWorkingDays"
    /\ ret' = [op |-> "addWorkingDays",
               result |-> addWorkingDays(formatDate(LocalMidnightOfDay(call.day)), call.n)]
    /\ pc' = "done"
    /\ UNCHANGED <<tz, swVars, call, dataVars, uiVars, appVars>>

NextCalendar == CallWeekStart \/ CallAddWorkingDays

SpecCalendar == InitCalendar /\ [][NextCalendar]_vars

\* the day number a "YYYY-MM-DD" string names
DayOfDateStr(dateStr) == DaysFromCivil(dateStr \div 10000, (dateStr \div 100) % 100, dateStr % 100)

IsWeekday(n) == WeekdayOfDay(n) \notin {0, 6}

\* C3: for every calendar date d, getWeekStartDate(getISOWeekYear(d), getISOWeek(d))
\* is a Monday and d lies between that Monday and that Monday plus 6 days,
\* also in the weeks that straddle a year boundary.
C3_WeekRoundTrip ==
    (pc = "done" /\ ret.op = "week") =>
        /\ getDay(ret.weekStartDate) = 1
        /\ formatDate(ret.weekStartDate) <= formatDate(LocalMidnightOfDay(call.day))
        /\ formatDate(LocalMidnightOfDay(call.day)) <= formatDate(addDays(ret.weekStartDate, 6))
        /\ LocalDay(ret.weekStartDate) <= call.day
        /\ call.day <= LocalDay(ret.weekStartDate) + 6

\* a date of late December whose ISO week belongs to the next year has been resolved
C3_Witness ==
    /\ pc = "done" /\ ret.op = "week"
    /\ CivilFromDays(call.day).m = 12
    /\ ret.year = CivilFromDays(call.day).y + 1
    /\ ret.week = 1

\* C8: for every start date and every n >= 1, addWorkingDays(start, n) returns a
\* Monday-Friday date strictly after start with exactly n Monday-Friday dates in
\* (start, result]; a Friday plus 1 working day is the following Monday.
C8_AddWorkingDays ==
    (pc = "done" /\ ret.op = "addWorkingDays") =>
        /\ ret.result # NaNDateStr
        /\ LET r == DayOfDateStr(ret.result)
           IN /\ IsWeekday(r)
              /\ r > call.day
              /\ Cardinality({k \in (call.day + 1)..r : IsWeekday(k)}) = call.n
              /\ (WeekdayOfDay(call.day) = 5 /\ call.n = 1) => r = call.day + 3

\* one working day has been added to a Friday
C8_Witness ==
    /\ pc = "done" /\ ret.op = "addWorkingDays"
    /\ WeekdayOfDay(call.day) = 5 /\ call.n = 1
    /\ DayOfDateStr(ret.result) = call.day + 3

----------------------------------------------------------------------------
(* ICS parsing, src/index.tsx 190-246                                      *)
(* The unfolded calendar text is a sequence of VEVENT blocks (the text     *)
(* before the first BEGIN:VEVENT is dropped by shift()); a block is a      *)
(* sequence of content lines.  A content line NAME;PARAM:VALUE is a record *)
(*   name   the property name the line starts with                         *)
(*   param  the parameter text between the name and the colon              *)
(*   text   the text after the colon (SUMMARY and STATUS lines)            *)
(*   digits the first run of 8 digits after the last colon, as YYYYMMDD,   *)
(*          or NoDigits when there is none                                 *)
(*   time   whether a time of day follows the 8 digits                     *)

NoDigits == 0
NoLine == [name |-> "", param |-> "", text |-> <<>>, digits |-> NoDigits, time |-> FALSE]
NoDateStr == 0          \* null / undefined where a date string is expected

TextLine(name, text) ==
    [name |-> name, param |-> "", text |-> text, digits |-> NoDigits, time |-> FALSE]
DateLine(name, param, digits, time) ==
    [name |-> name, param |-> param, text |-> <<>>, digits |-> digits, time |-> time]

CancelledText == <<"C", "A", "N", "C", "E", "L", "L", "E", "D">>

\* s.trim()
RECURSIVE TrimLeft(_)
TrimLeft(s) == IF s # <<>> /\ Head(s) = " " THEN TrimLeft(Tail(s)) ELSE s
RECURSIVE TrimRight(_)
TrimRight(s) ==
    IF s # <<>> /\ s[Len(s)] = " " THEN TrimRight(SubSeq(s, 1, Len(s) - 1)) ELSE s
Trim(s) == TrimRight(TrimLeft(s))

\* lines.find(l => l.startsWith(name)); NoLine for undefined
RECURSIVE FindLine(_, _)
FindLine(lines, name) ==
    IF lines = <<>> THEN NoLine
    ELSE IF Head(lines).name = name THEN Head(lines)
    ELSE FindLine(Tail(lines), name)

\* block.includes('STATUS:CANCELLED')
BlockIsCancelled(lines) ==
    \E i \in 1..Len(lines) : lines[i].name = "STATUS" /\ lines[i].text = CancelledText

\* dtstartLine.includes('VALUE=DATE'): a substring test, so VALUE=DATE-TIME has it too
IncludesValueDate(line) == line.param \in {"VALUE=DATE", "VALUE=DATE-TIME"}

parseDateFromICSLine(line) == IF line.digits # NoDigits THEN line.digits ELSE NoDateStr

\* the end date of an all-day event: one day taken off by way of a Date that is
\* parsed as UTC midnight and read back in local time
AllDayEndDate(endDateStr) == formatDate(ShiftDays(ParseDateOnly(endDateStr), 0 - 1))

\* an iteration that has no default for the end date
ParseBlockWithoutDefault(lines) ==
    IF BlockIsCancelled(lines) THEN <<>>
    ELSE LET summaryLine == FindLine(lines, "SUMMARY")
             dtstartLine == FindLine(lines, "DTSTART")
             dtendLine == FindLine(lines, "DTEND")
             summary == IF summaryLine # NoLine THEN Trim(summaryLine.text) ELSE <<>>
             startDate == IF dtstartLine # NoLine THEN parseDateFromICSLine(dtstartLine)
                          ELSE NoDateStr
             isAllDay == IF dtstartLine # NoLine THEN IncludesValueDate(dtstartLine) ELSE FALSE
             endDateStr == IF dtendLine # NoLine THEN parseDateFromICSLine(dtendLine)
                           ELSE NoDateStr
             endDate == IF endDateStr # NoDateStr
                        THEN (IF isAllDay /\ startDate # NoDateStr /\ endDateStr > startDate
                              THEN AllDayEndDate(endDateStr)
                              ELSE endDateStr)
                        ELSE NoDateStr
         IN IF summary # <<>> /\ startDate # NoDateStr /\ endDate # NoDateStr
            THEN <<[summary |-> summary, startDate |-> startDate, endDate |-> endDate]>>
            ELSE <<>>

\* one iteration of the for loop: the events a block adds (none or one)
ParseBlock(lines) ==
    IF BlockIsCancelled(lines) THEN <<>>
    ELSE LET summaryLine == FindLine(lines, "SUMMARY")
             dtstartLine == FindLine(lines, "DTSTART")
             dtendLine == FindLine(lines, "DTEND")
             summary == IF summaryLine # NoLine THEN Trim(summaryLine.text) ELSE <<>>
             startDate == IF dtstartLine # NoLine THEN parseDateFromICSLine(dtstartLine)
                          ELSE NoDateStr
             isAllDay == IF dtstartLine # NoLine THEN IncludesValueDate(dtstartLine) ELSE FALSE
             endDateStr == IF dtendLine # NoLine THEN parseDateFromICSLine(dtendLine)
                           ELSE NoDateStr
             endDate1 == IF endDateStr # NoDateStr
                         THEN (IF isAllDay /\ startDate # NoDateStr /\ endDateStr > startDate
                               THEN AllDayEndDate(endDateStr)
                               ELSE endDateStr)
                         ELSE NoDateStr
             endDate == IF endDate1 = NoDateStr /\ startDate # NoDateStr THEN startDate
                        ELSE endDate1
         IN IF summary # <<>> /\ startDate # NoDateStr /\ endDate # NoDateStr
            THEN <<[summary |-> summary, startDate |-> startDate, endDate |-> endDate]>>
            ELSE <<>>

RECURSIVE parseICS(_)
parseICS(eventBlocks) ==
    IF eventBlocks = <<>> THEN <<>>
    ELSE ParseBlock(Head(eventBlocks)) \o parseICS(Tail(eventBlocks))

----------------------------------------------------------------------------
(* ICS specification: parseICS is run on calendar texts of one or two      *)
(* blocks in every modelled time zone.                                     *)

\* the dates that occur in the calendar texts: around a year end, a leap day
IcsDates == {20231231, 20240101, 20240102, 20240103, 20240229, 20240301}

IcsSummaries == {<<>>, <<"M", "R">>, <<" ", "L", "B", " ">>}

IcsStartLines ==
    {NoLine}
    \cup {DateLine("DTSTART", "VALUE=DATE", d, FALSE) : d \in IcsDates}
    \cup {DateLine("DTSTART", p, d, TRUE) : p \in {"", "VALUE=DATE-TIME"}, d \in {20240101, 20240229}}
    \cup {DateLine("DTSTART", "", NoDigits, FALSE)}

IcsEndLines ==
    {NoLine}
    \cup {DateLine("DTEND", "VALUE=DATE", d, FALSE) : d \in IcsDates}
    \cup {DateLine("DTEND", "", d, TRUE) : d \in {20240101, 20240103}}

OptLine(line) == IF line = NoLine THEN <<>> ELSE <<line>>

IcsBlocks ==
    {<<TextLine("SUMMARY", s)>> \o OptLine(st) \o OptLine(en) :
        s \in IcsSummaries, st \in IcsStartLines, en \in IcsEndLines}
    \cup {<<TextLine("STATUS", CancelledText), TextLine("SUMMARY", <<"M", "R">>),
            DateLine("DTSTART", "VALUE=DATE", 20240101, FALSE)>>,
          <<DateLine("DTSTART", "VALUE=DATE", 20240101, FALSE)>>}

\* a second block that may follow the first
IcsSecondBlocks ==
    {<<TextLine("SUMMARY", <<"M", "R">>), DateLine("DTSTART", "VALUE=DATE", 20240101, FALSE),
       DateLine("DTEND", "VALUE=DATE", 20240102, FALSE)>>}

IcsContents == {<<b>> : b \in IcsBlocks} \cup {<<b, c>> : b \in IcsBlocks, c \in IcsSecondBlocks}

InitICS ==
    /\ tz \in TzOffsets
    /\ NoWorker
    /\ call \in [op : {"parseICS"}, content : IcsContents]
    /\ ret = NoRet
    /\ pc = "call"
    /\ IdleApp

CallParseICS ==
    /\ pc = "call"
    /\ call.op = "parseICS"
    /\ ret' = [op |-> "parseICS", events |-> parseICS(call.content)]
    /\ pc' = "done"
    /\ UNCHANGED <<tz, swVars, call, dataVars, uiVars, appVars>>

NextICS == CallParseICS

SpecICS == InitICS /\ [][NextICS]_vars

\* "YYYY-MM-DD" of the calendar day before the one a date string names
DayBefore(dateStr) ==
    LET c == CivilFromDays(DayOfDateStr(dateStr) - 1)
    IN c.y * 10000 + c.m * 100 + c.d

\* a block with a date-only DTSTART and a DTEND date strictly after it
IsAllDayBlock(lines) ==
    LET st == FindLine(lines, "DTSTART")
        en == FindLine(lines, "DTEND")
        su == FindLine(lines, "SUMMARY")
    IN /\ ~BlockIsCancelled(lines)
       /\ su # NoLine /\ Trim(su.text) # <<>>
       /\ st # NoLine /\ st.param = "VALUE=DATE" /\ ~st.time /\ st.digits # NoDigits
       /\ en # NoLine /\ en.digits # NoDigits
       /\ en.digits > st.digits

\* C5: for every ICS event whose DTSTART is date-only and whose DTEND date is
\* strictly after the DTSTART date, parseICS returns startDate = the DTSTART date
\* and endDate = the calendar day before the DTEND date, whatever the UTC offset.
C5_AllDayEnd ==
    (pc = "done" /\ ret.op = "parseICS" /\ Len(call.content) = 1
        /\ IsAllDayBlock(call.content[1])) =>
        /\ Len(ret.events) = 1
        /\ ret.events[1].startDate = FindLine(call.content[1], "DTSTART").digits
        /\ ret.events[1].endDate = DayBefore(FindLine(call.content[1], "DTEND").digits)

----------------------------------------------------------------------------
(* Initials matching, src/index.tsx 2835-2855                              *)
(* Texts are sequences of characters.  The regular expressions built from  *)
(* initials are modelled for initials made of letters, digits and the      *)
(* pattern character "." (any character); other pattern characters are    *)
(* outside the modelled inputs.                                            *)

UpperLetters == <<"A", "B", "C", "D", "E", "F", "G", "H", "I", "J", "K", "L", "M",
                  "N", "O", "P", "Q", "R", "S", "T", "U", "V", "W", "X", "Y", "Z">>
LowerLetters == <<"a", "b", "c", "d", "e", "f", "g", "h", "i", "j", "k", "l", "m",
                  "n", "o", "p", "q", "r", "s", "t", "u", "v", "w", "x", "y", "z">>
Digits == {"0", "1", "2", "3", "4", "5", "6", "7", "8", "9"}

Range(f) == {f[i] : i \in DOMAIN f}

\* c.toUpperCase() of one character
UpperChar(c) ==
    IF c \in Range(LowerLetters)
    THEN UpperLetters[CHOOSE i \in DOMAIN LowerLetters : LowerLetters[i] = c]
    ELSE c

toUpperCase(s) == [i \in DOMAIN s |-> UpperChar(s[i])]

\* \w of a regular expression
IsWordChar(c) == c \in Range(UpperLetters) \cup Range(LowerLetters) \cup Digits \cup {"_"}

\* \b at the gap after the first k characters of s
WordBoundary(s, k) ==
    LET before == k >= 1 /\ IsWordChar(s[k])
        after == k < Len(s) /\ IsWordChar(s[k + 1])
    IN before # after

\* one pattern character against one text character under the flag i
PatternCharMatches(p, c) == IF p = "." THEN TRUE ELSE UpperChar(p) = UpperChar(c)

\* new RegExp(`\\b${initials}\\b`, 'i').test(summary)
RegexTest(initials, summary) ==
    \E i \in 1..(Len(summary) - Len(initials) + 1) :
        /\ WordBoundary(summary, i - 1)
        /\ \A j \in 1..Len(initials) : PatternCharMatches(initials[j], summary[i + j - 1])
        /\ WordBoundary(summary, i + Len(initials) - 1)

NoPerson == [id |-> "", initials |-> <<>>]      \* null / undefined

\* list.find(..) over the positions that satisfy the predicate: the element at
\* the first of them, NoPerson (undefined) when there is none
FirstPersonAt(personnelList, hits) ==
    IF hits = {} THEN NoPerson
    ELSE personnelList[CHOOSE i \in hits : \A j \in hits : i <= j]

\* summary.match(/^\[(.*?)\]/): the text between a leading "[" and the first "]"
\* after it; HasBracketToken tells whether the expression matches
HasBracketToken(summary) ==
    /\ Len(summary) >= 2
    /\ summary[1] = "["
    /\ \E k \in 2..Len(summary) : summary[k] = "]"

BracketToken(summary) ==
    LET k == CHOOSE k \in 2..Len(summary) :
                 /\ summary[k] = "]"
                 /\ \A m \in 2..(k - 1) : summary[m] # "]"
    IN SubSeq(summary, 2, k - 1)

findPersonnelFromSummary(summary, personnelList) ==
    LET initialsMatch == HasBracketToken(summary) /\ BracketToken(summary) # <<>>
        initials == toUpperCase(BracketToken(summary))
        strict == IF initialsMatch
                  THEN FirstPersonAt(personnelList,
                           {i \in 1..Len(personnelList) :
                               toUpperCase(personnelList[i].initials) = initials})
                  ELSE NoPerson
    IN IF strict # NoPerson THEN strict
       ELSE FirstPersonAt(personnelList,
                {i \in 1..Len(personnelList) :
                    /\ personnelList[i].initials # <<>>
                    /\ RegexTest(personnelList[i].initials, summary)})

----------------------------------------------------------------------------
(* Matching specification: the matcher is run on every short summary and   *)
(* every personnel list of one or two people.                              *)

MaxSummaryLen == 4

SummaryChars == {"M", "R", "m", "[", "]", " "}

InitialsSet == {<<>>, <<"M">>, <<"R">>, <<"m">>, <<"M", "R">>, <<"M", ".", "R">>}

RECURSIVE TextsUpTo(_, _)
TextsUpTo(chars, n) ==
    IF n = 0 THEN {<<>>}
    ELSE LET shorter == TextsUpTo(chars, n - 1)
         IN shorter \cup {Append(t, c) : t \in shorter, c \in chars}

MatchPersonnelLists ==
    {<<[id |-> "p1", initials |-> a]>> : a \in InitialsSet}
    \cup {<<[id |-> "p1", initials |-> a], [id |-> "p2", initials |-> b]>> :
            a \in InitialsSet, b \in InitialsSet}

InitMatch ==
    /\ tz = 1
    /\ NoWorker
    /\ call \in [op : {"findPersonnelFromSummary"},
                 summary : TextsUpTo(SummaryChars, MaxSummaryLen),
                 personnelList : MatchPersonnelLists]
    /\ ret = NoRet
    /\ pc = "call"
    /\ IdleApp

CallFindPersonnel ==
    /\ pc = "call"
    /\ call.op = "findPersonnelFromSummary"
    /\ ret' = [op |-> "findPersonnelFromSummary",
               person |-> findPersonnelFromSummary(call.summary, call.personnelList)]
    /\ pc' = "done"
    /\ UNCHANGED <<tz, swVars, call, dataVars, uiVars, appVars>>

NextMatch == CallFindPersonnel

SpecMatch == InitMatch /\ [][NextMatch]_vars

\* the initials occur in the summary as a whole word, letter case ignored
OccursAsWholeWord(initials, summary) ==
    \E i \in 1..(Len(summary) - Len(initials) + 1) :
        /\ \A j \in 1..Len(initials) : UpperChar(initials[j]) = UpperChar(summary[i + j - 1])
        /\ (i = 1 \/ ~IsWordChar(summary[i - 1]))
        /\ (i + Len(initials) > Len(summary) \/ ~IsWordChar(summary[i + Len(initials)]))

\* positions of the people of a list that satisfy a condition
StrictMatches(summary, list) ==
    {i \in 1..Len(list) :
        /\ HasBracketToken(summary) /\ BracketToken(summary) # <<>>
        /\ toUpperCase(list[i].initials) = toUpperCase(BracketToken(summary))}
FlexibleMatches(summary, list) ==
    {i \in 1..Len(list) :
        list[i].initials # <<>> /\ OccursAsWholeWord(list[i].initials, summary)}

Least(S) == CHOOSE x \in S : \A y \in S : x <= y

\* the two-tier reference matcher
ReferenceMatch(summary, list) ==
    IF StrictMatches(summary, list) # {} THEN list[Least(StrictMatches(summary, list))]
    ELSE IF FlexibleMatches(summary, list) # {} THEN list[Least(FlexibleMatches(summary, list))]
    ELSE NoPerson

\* C6: findPersonnelFromSummary equals the two-tier reference matcher for every
\* summary and personnel list: a leading bracketed token [XX] that equals a
\* person's initials (case-insensitively) wins, otherwise the first person whose
\* non-empty initials occur as a whole word, otherwise null.
C6_MatchesReference ==
    (pc = "done" /\ ret.op = "findPersonnelFromSummary") =>
        ret.person = ReferenceMatch(call.summary, call.personnelList)

----------------------------------------------------------------------------
(* Status resolution, src/index.tsx 1368-1393 and 2030-2054                *)
(* A status override key `${personId}-${dateStr}-${slot}` is the triple    *)
(* <<personId, dateStr, slot>>: the key is only ever built and looked up,  *)
(* never split, and its date-slot suffix has a fixed width, so two keys    *)
(* are equal exactly when the triples are.                                 *)

SlotM == <<"M">>
SlotP == <<"P">>
Slots == {SlotM, SlotP}

NoType == [id |-> "", name |-> ""]              \* null where an AbsenceType is expected
NoAbsence == [id |-> 0, personnelId |-> "", startDate |-> NoDateStr,
              endDate |-> NoDateStr, typeId |-> "", note |-> <<>>]

\* data.absenceTypes.find(at => at.id === typeId) || null
FindType(types, typeId) ==
    LET hits == {i \in 1..Len(types) : types[i].id = typeId}
    IN IF hits = {} THEN NoType ELSE types[CHOOSE i \in hits : \A j \in hits : i <= j]

\* data.personnel.find(p => p.id === personnelId)
FindPersonById(list, personnelId) ==
    FirstPersonAt(list, {i \in 1..Len(list) : list[i].id = personnelId})

\* data.absences.find(abs => abs.personnelId === personnelId &&
\*                           dateStr >= abs.startDate && dateStr <= abs.endDate)
FindAbsence(list, personnelId, dateStr) ==
    LET hits == {i \in 1..Len(list) :
                    /\ list[i].personnelId = personnelId
                    /\ dateStr >= list[i].startDate
                    /\ dateStr <= list[i].endDate}
    IN IF hits = {} THEN NoAbsence ELSE list[CHOOSE i \in hits : \A j \in hits : i <= j]

\* person.fixedAbsences?.[dayIndex]?.[slot]; "" for undefined
FixedAbsenceTypeId(person, dayIndex, slot) ==
    IF <<dayIndex, slot>> \in DOMAIN person.fixedAbsences
    THEN person.fixedAbsences[<<dayIndex, slot>>]
    ELSE ""

\* a lookup that tries the fixed weekly absences before the ad-hoc absences
getAbsenceDetailsFixedFirst(personnelId, date, slot) ==
    LET person == FindPersonById(personnel, personnelId)
        dateStr == formatDate(date)
        absence == FindAbsence(absences, personnelId, dateStr)
        dayOfWeek == getDay(date)
        fixedAbsenceDayIndex == IF dayOfWeek = 0 THEN 6 ELSE dayOfWeek - 1
        fixedAbsenceTypeId == FixedAbsenceTypeId(person, fixedAbsenceDayIndex, slot)
    IN IF person = NoPerson THEN NoType
       ELSE IF fixedAbsenceTypeId # "" THEN FindType(absenceTypes, fixedAbsenceTypeId)
       ELSE IF absence # NoAbsence THEN FindType(absenceTypes, absence.typeId)
       ELSE NoType

\* a lookup that goes on to the fixed weekly absences when the type of the
\* ad-hoc absence is not in the list
getAbsenceDetailsFallingThrough(personnelId, date, slot) ==
    LET person == FindPersonById(personnel, personnelId)
        dateStr == formatDate(date)
        absence == FindAbsence(absences, personnelId, dateStr)
        dayOfWeek == getDay(date)
        fixedAbsenceDayIndex == IF dayOfWeek = 0 THEN 6 ELSE dayOfWeek - 1
        fixedAbsenceTypeId == FixedAbsenceTypeId(person, fixedAbsenceDayIndex, slot)
    IN IF person = NoPerson THEN NoType
       ELSE IF absence # NoAbsence /\ FindType(absenceTypes, absence.typeId) # NoType
            THEN FindType(absenceTypes, absence.typeId)
       ELSE IF fixedAbsenceTypeId # "" THEN FindType(absenceTypes, fixedAbsenceTypeId)
       ELSE NoType

getAbsenceDetails(personnelId, date, slot) ==
    LET person == FindPersonById(personnel, personnelId)
        dateStr == formatDate(date)
        absence == FindAbsence(absences, personnelId, dateStr)
        dayOfWeek == getDay(date)
        fixedAbsenceDayIndex == IF dayOfWeek = 0 THEN 6 ELSE dayOfWeek - 1
        fixedAbsenceTypeId == FixedAbsenceTypeId(person, fixedAbsenceDayIndex, slot)
    IN IF person = NoPerson THEN NoType
       ELSE IF absence # NoAbsence THEN FindType(absenceTypes, absence.typeId)
       ELSE IF fixedAbsenceTypeId # "" THEN FindType(absenceTypes, fixedAbsenceTypeId)
       ELSE NoType

\* data.statusOverrides[key]; "" for undefined
OverrideOf(personId, dateStr, slot) ==
    IF <<personId, dateStr, slot>> \in DOMAIN statusOverrides
    THEN statusOverrides[<<personId, dateStr, slot>>]
    ELSE ""

\* PersonnelStatusCell: what the status grid shows for (person, date, slot)
PersonnelStatusCell(personId, date, slot) ==
    LET overrideTypeId == OverrideOf(personId, formatDate(date), slot)
    IN IF overrideTypeId # ""
       THEN IF overrideTypeId = "present"
            THEN [absenceDetails |-> NoType, isPresent |-> TRUE]
            ELSE [absenceDetails |-> FindType(absenceTypes, overrideTypeId),
                  isPresent |-> FALSE]
       ELSE [absenceDetails |-> getAbsenceDetails(personId, date, slot),
             isPresent |-> FALSE]

\* PersonnelScheduleCell 1191-1241: the cell opens the quick-add dialog only when
\* it shows neither an absence nor a booking of the person
ScheduleCellIsFree(personId, date, slot) ==
    LET overrideTypeId == OverrideOf(personId, formatDate(date), slot)
        absenceDetails ==
            IF overrideTypeId # ""
            THEN (IF overrideTypeId # "present" THEN FindType(absenceTypes, overrideTypeId)
                  ELSE NoType)
            ELSE getAbsenceDetails(personId, date, slot)
    IN /\ absenceDetails = NoType
       /\ ~\E i \in 1..Len(bookings) :
              /\ bookings[i].personnelId = personId
              /\ bookings[i].date = formatDate(date)
              /\ bookings[i].slot = slot

\* DashboardView 1982 / 1996: isPersonAbsent handed to the two booking dialogs
isPersonAbsent(personnelId, dateStr, slot) ==
    getAbsenceDetails(personnelId, ParseLocalMidnight(dateStr), slot) # NoType

----------------------------------------------------------------------------
(* The week on display, src/index.tsx 1362-1366 *)

WeekIndexes == 0..4             \* Array.from({ length: 5 })

year == getISOWeekYear(currentDate)
week == getISOWeek(currentDate)
weekStartDate == getWeekStartDate(year, week)
weekDates == [i \in 1..5 |-> addDays(weekStartDate, i - 1)]
weekDateStrings == [i \in 1..5 |-> formatDate(weekDates[i])]

\* arr.includes(x) and arr.indexOf(x) (0-based, -1 when absent)
Includes(arr, x) == \E i \in 1..Len(arr) : arr[i] = x
IndexOf(arr, x) ==
    IF Includes(arr, x)
    THEN (CHOOSE i \in 1..Len(arr) : arr[i] = x /\ \A j \in 1..(i - 1) : arr[j] # x) - 1
    ELSE 0 - 1

----------------------------------------------------------------------------
(* Booking store, src/index.tsx 1396-1411 *)

NoBooking == [id |-> 0, instrumentId |-> <<>>, personnelId |-> "", date |-> NoDateStr,
              slot |-> <<>>, note |-> <<>>]

\* data.bookings.find(b => b.instrumentId === .. && b.date === .. && b.slot === ..)
FindBooking(list, instrumentId, date, slot) ==
    LET hits == {i \in 1..Len(list) :
                    /\ list[i].instrumentId = instrumentId
                    /\ list[i].date = date
                    /\ list[i].slot = slot}
    IN IF hits = {} THEN NoBooking ELSE list[CHOOSE i \in hits : \A j \in hits : i <= j]

FilterOutId(list, id) == SelectSeq(list, LAMBDA b : b.id # id)

\* a save that appends without removing the booking of the same id
UpsertBookingAppendOnly(list, booking) == Append(list, booking)

\* handleSaveBooking: [...prev.bookings.filter(b => b.id !== booking.id), booking]
UpsertBooking(list, booking) == Append(FilterOutId(list, booking.id), booking)

\* handleDeleteBooking: prev.bookings.filter(b => b.id !== bookingId)
DeleteBooking(list, bookingId) == FilterOutId(list, bookingId)

----------------------------------------------------------------------------
(* Template engine, src/index.tsx 1433-1508                                *)
(* positionalBookings is an object: a sequence of [key, personnelId, note] *)
(* entries in insertion order with pairwise different keys.  A key is the  *)
(* text `${instrumentId}-${dayOfWeek}-${slot}`.                            *)

DigitText == <<"0", "1", "2", "3", "4", "5", "6", "7", "8", "9">>

\* `${n}` for 0 <= n <= 9
NumberText(n) == <<DigitText[n + 1]>>

NaN == 0 - 1

\* parseInt(text, 10): the number its leading digits spell, NaN without any
RECURSIVE ParseIntLoop(_, _)
ParseIntLoop(text, acc) ==
    IF text # <<>> /\ Head(text) \in Digits
    THEN ParseIntLoop(Tail(text),
                      acc * 10 + ((CHOOSE i \in 1..10 : DigitText[i] = Head(text)) - 1))
    ELSE acc
parseInt(text) == IF text # <<>> /\ Head(text) \in Digits THEN ParseIntLoop(text, 0) ELSE NaN

\* text.split('-')
RECURSIVE SplitLoop(_, _, _)
SplitLoop(text, current, parts) ==
    IF text = <<>> THEN Append(parts, current)
    ELSE IF Head(text) = "-" THEN SplitLoop(Tail(text), <<>>, Append(parts, current))
    ELSE SplitLoop(Tail(text), Append(current, Head(text)), parts)
Split(text) == SplitLoop(text, <<>>, <<>>)

PositionKey(instrumentId, dayOfWeek, slot) ==
    instrumentId \o <<"-">> \o NumberText(dayOfWeek) \o <<"-">> \o slot

\* obj[key] = value on an object kept as a sequence of entries
SetEntry(entries, key, personnelId, note) ==
    LET e == [key |-> key, personnelId |-> personnelId, note |-> note]
    IN IF \E i \in 1..Len(entries) : entries[i].key = key
       THEN [i \in 1..Len(entries) |-> IF entries[i].key = key THEN e ELSE entries[i]]
       ELSE Append(entries, e)

\* executeSaveTemplate 1434-1447: the forEach over the week's bookings
RECURSIVE CaptureLoop(_, _, _)
CaptureLoop(bookingsInWeek, dateStrings, entries) ==
    IF bookingsInWeek = <<>> THEN entries
    ELSE LET booking == Head(bookingsInWeek)
             dayOfWeek == IndexOf(dateStrings, booking.date)
         IN CaptureLoop(Tail(bookingsInWeek), dateStrings,
                IF dayOfWeek # 0 - 1
                THEN SetEntry(entries,
                              PositionKey(booking.instrumentId, dayOfWeek, booking.slot),
                              booking.personnelId, booking.note)
                ELSE entries)

CaptureTemplate(list, dateStrings) ==
    CaptureLoop(SelectSeq(list, LAMBDA b : Includes(dateStrings, b.date)), dateStrings, <<>>)

\* executeApplyTemplate 1486-1502: the booking one entry becomes
BookingOfEntry(entry, id, startDate) ==
    LET parts == Split(entry.key)
        instrumentId == parts[1]
        dayOfWeek == parseInt(parts[2])
        slot == parts[3]
        date == IF dayOfWeek = NaN THEN InvalidDate ELSE addDays(startDate, dayOfWeek)
    IN [id |-> id, instrumentId |-> instrumentId, personnelId |-> entry.personnelId,
        date |-> formatDate(date), slot |-> slot, note |-> entry.note]

\* executeApplyTemplate 1483-1507: [...bookingsOutsideWeek, ...newBookingsFromTemplate]
ApplyTemplate(list, entries, firstId, startDate, dateStrings) ==
    SelectSeq(list, LAMBDA b : ~Includes(dateStrings, b.date))
    \o [i \in 1..Len(entries) |-> BookingOfEntry(entries[i], firstId + i - 1, startDate)]

NoTemplate == [id |-> 0, positionalBookings |-> <<>>]

\* data.templates?.find(t => t.id === id)
FindTemplate(list, id) ==
    LET hits == {i \in 1..Len(list) : list[i].id = id}
    IN IF hits = {} THEN NoTemplate ELSE list[CHOOSE i \in hits : \A j \in hits : i <= j]

----------------------------------------------------------------------------
(* The dashboard: data and inputs of the booking specifications *)

\* fresh ids handed out by Date.now() / Math.random() in one run
MaxId == 2

\* weeks the user pages forward from the first one
MaxWeekShift == 1

\* the instruments of the snapshot (data.instruments); the second id holds a hyphen
Instrument1 == <<"i", "1">>
Instrument2 == <<"i", "-", "2">>
InstrumentIds == {Instrument1, Instrument2}

PersonIds == {"p1", "p2"}

\* the (day index, slot) cells of the week on display that are clicked
ClickCells == {<<0, SlotM>>}

\* the note typed into a booking dialog
Notes == {<<"n">>}

\* 2024-12-31, a Tuesday of ISO week 1 of 2025
BaseDateStr == 20241231
BaseMonday == 20241230

\* initialData.absenceTypes 301-307
SeedAbsenceTypes ==
    << [id |-> "fuori_sede", name |-> "Fuori sede"],
       [id |-> "ferie", name |-> "Ferie"],
       [id |-> "malattia", name |-> "Malattia"],
       [id |-> "telelavoro", name |-> "Telelavoro"],
       [id |-> "fisse", name |-> "Assenza Fissa"] >>

\* two people as getDefaultData 336-339 shapes them: one without fixed absences,
\* one absent every Friday afternoon
SeedPersonnel ==
    << [id |-> "p1", initials |-> <<"M", "R">>, fixedAbsences |-> EmptyMap],
       [id |-> "p2", initials |-> <<"L", "B">>,
        fixedAbsences |-> [k \in {<<4, SlotP>>} |-> "fisse"]] >>

\* one ad-hoc absence (getDefaultData 376-378): p2 away on the first Monday
SeedAbsences ==
    << [id |-> 900, personnelId |-> "p2", startDate |-> BaseMonday, endDate |-> BaseMonday,
        typeId |-> "fuori_sede", note |-> <<>>] >>

SeedBooking(id, instrumentId, personnelId, date, slot) ==
    [id |-> id, instrumentId |-> instrumentId, personnelId |-> personnelId,
     date |-> date, slot |-> slot, note |-> <<>>]

\* booking collections the store starts from: each has at most one booking per
\* (instrumentId, date, slot)
SeedBookingCollections ==
    { <<>>,
      <<SeedBooking(901, Instrument1, "p1", BaseMonday, SlotM)>>,
      <<SeedBooking(902, Instrument2, "p1", BaseMonday, SlotM)>> }

\* the template of getDefaultData 381-390, on the first instrument
SeedTemplates ==
    << [id |-> 950,
        positionalBookings |->
            << [key |-> PositionKey(Instrument1, 0, SlotM), personnelId |-> "p1",
                note |-> <<"n">>] >>] >>

InitDashboard ==
    /\ tz = 1
    /\ NoWorker
    /\ call = NoOp /\ ret = NoRet /\ pc = "idle"
    /\ personnel = SeedPersonnel
    /\ absenceTypes = SeedAbsenceTypes
    /\ absences = SeedAbsences
    /\ unprocessedAbsences = <<>>
    /\ bookings \in SeedBookingCollections
    /\ templates = SeedTemplates
    /\ statusOverrides = EmptyMap
    /\ currentDate = ParseLocalMidnight(BaseDateStr)
    /\ bookingModal = NoModal
    /\ quickBookingModal = NoModal
    /\ editingStatus = NoModal
    /\ selectedTemplateId = 0
    /\ confirmation = NoConfirmation
    /\ isNamingTemplate = FALSE
    /\ pendingImport = NoImport
    /\ nextId = 1
    /\ lastOp = NoOp
    /\ AppIdle

\* a modal overlay covers the page while a dialog is open
DialogOpen ==
    \/ bookingModal # NoModal
    \/ quickBookingModal # NoModal
    \/ confirmation # NoConfirmation
    \/ isNamingTemplate

dashUnchanged == <<tz, swVars, calVars, personnel, absenceTypes, absences, unprocessedAbsences,
                   statusOverrides, editingStatus, pendingImport, appVars>>

\* 1642 / 1648: setCurrentDate(addDays(currentDate, -7 | 7))
PreviousWeek ==
    /\ ~DialogOpen
    /\ currentDate > ParseLocalMidnight(BaseDateStr)
    /\ currentDate' = addDays(currentDate, 0 - 7)
    /\ lastOp' = NoOp
    /\ UNCHANGED <<dashUnchanged, bookings, templates, bookingModal, quickBookingModal,
                   selectedTemplateId, confirmation, isNamingTemplate, nextId>>

NextWeek ==
    /\ ~DialogOpen
    /\ currentDate < addDays(ParseLocalMidnight(BaseDateStr), 7 * MaxWeekShift)
    /\ currentDate' = addDays(currentDate, 7)
    /\ lastOp' = NoOp
    /\ UNCHANGED <<dashUnchanged, bookings, templates, bookingModal, quickBookingModal,
                   selectedTemplateId, confirmation, isNamingTemplate, nextId>>

\* BookingCell 2094: setBookingModal({ instrumentId, date, slot })
OpenBookingModal(instrumentId, dayIndex, slot) ==
    /\ ~DialogOpen
    /\ bookingModal' = [open |-> TRUE, instrumentId |-> instrumentId,
                        date |-> weekDateStrings[dayIndex + 1], slot |-> slot]
    /\ lastOp' = NoOp
    /\ UNCHANGED <<dashUnchanged, bookings, templates, currentDate, quickBookingModal,
                   selectedTemplateId, confirmation, isNamingTemplate, nextId>>

\* 1975: onClose={() => setBookingModal(null)}
CloseBookingModal ==
    /\ bookingModal # NoModal
    /\ bookingModal' = NoModal
    /\ lastOp' = NoOp
    /\ UNCHANGED <<dashUnchanged, bookings, templates, currentDate, quickBookingModal,
                   selectedTemplateId, confirmation, isNamingTemplate, nextId>>

\* 1983: the booking the dialog edits
existingBooking ==
    FindBooking(bookings, bookingModal.instrumentId, bookingModal.date, bookingModal.slot)

\* BookingModal.handleSave 3147-3165, then handleSaveBooking 1396-1403.
\* userConfirms is the answer to confirm() when the person is absent.
BookingModalSave(personnelId, note, userConfirms) ==
    /\ bookingModal # NoModal
    /\ personnelId # ""
    /\ isPersonAbsent(personnelId, bookingModal.date, bookingModal.slot) => userConfirms
    /\ existingBooking = NoBooking => nextId <= MaxId
    /\ LET id == IF existingBooking # NoBooking THEN existingBooking.id ELSE nextId
           booking == [id |-> id, instrumentId |-> bookingModal.instrumentId,
                       personnelId |-> personnelId, date |-> bookingModal.date,
                       slot |-> bookingModal.slot, note |-> note]
       IN /\ bookings' = UpsertBooking(bookings, booking)
          /\ nextId' = IF existingBooking # NoBooking THEN nextId ELSE nextId + 1
    /\ bookingModal' = NoModal
    /\ quickBookingModal' = NoModal
    /\ lastOp' = [op |-> "gridSave"]
    /\ UNCHANGED <<dashUnchanged, templates, currentDate, selectedTemplateId, confirmation,
                   isNamingTemplate>>

\* BookingModal.handleConfirmDelete 3167-3171, then handleDeleteBooking 1405-1411
BookingModalDelete ==
    /\ bookingModal # NoModal
    /\ existingBooking # NoBooking
    /\ bookings' = DeleteBooking(bookings, existingBooking.id)
    /\ bookingModal' = NoModal
    /\ lastOp' = [op |-> "gridDelete"]
    /\ UNCHANGED <<dashUnchanged, templates, currentDate, quickBookingModal,
                   selectedTemplateId, confirmation, isNamingTemplate, nextId>>

\* PersonnelScheduleCell 1246: onAddBooking({ personnelId, date, slot }) on a free cell
OpenQuickAdd(personId, dayIndex, slot) ==
    /\ ~DialogOpen
    /\ ScheduleCellIsFree(personId, weekDates[dayIndex + 1], slot)
    /\ quickBookingModal' = [open |-> TRUE, personnelId |-> personId,
                             date |-> weekDateStrings[dayIndex + 1], slot |-> slot]
    /\ lastOp' = NoOp
    /\ UNCHANGED <<dashUnchanged, bookings, templates, currentDate, bookingModal,
                   selectedTemplateId, confirmation, isNamingTemplate, nextId>>

\* 1990: onClose={() => setQuickBookingModal(null)}
CloseQuickAdd ==
    /\ quickBookingModal # NoModal
    /\ quickBookingModal' = NoModal
    /\ lastOp' = NoOp
    /\ UNCHANGED <<dashUnchanged, bookings, templates, currentDate, bookingModal,
                   selectedTemplateId, confirmation, isNamingTemplate, nextId>>

\* QuickAddBookingModal.handleSave 1113-1131, then handleSaveBooking 1396-1403
QuickAddSave(instrumentId, note, userConfirms) ==
    /\ quickBookingModal # NoModal
    /\ instrumentId # <<>>
    /\ isPersonAbsent(quickBookingModal.personnelId, quickBookingModal.date,
                      quickBookingModal.slot) => userConfirms
    /\ nextId <= MaxId
    /\ LET booking == [id |-> nextId, instrumentId |-> instrumentId,
                       personnelId |-> quickBookingModal.personnelId,
                       date |-> quickBookingModal.date,
                       slot |-> quickBookingModal.slot, note |-> note]
       IN bookings' = UpsertBooking(bookings, booking)
    /\ nextId' = nextId + 1
    /\ bookingModal' = NoModal
    /\ quickBookingModal' = NoModal
    /\ lastOp' = [op |-> "quickSave"]
    /\ UNCHANGED <<dashUnchanged, templates, currentDate, selectedTemplateId, confirmation,
                   isNamingTemplate>>

\* bookingsInWeek of handleSaveTemplate / executeSaveTemplate
bookingsInWeek == SelectSeq(bookings, LAMBDA b : Includes(weekDateStrings, b.date))

\* handleSaveTemplate 1464-1477
HandleSaveTemplate ==
    /\ ~DialogOpen
    /\ IF Len(bookingsInWeek) = 0
       THEN /\ confirmation' = [kind |-> "saveEmptyTemplate"]
            /\ UNCHANGED isNamingTemplate
       ELSE /\ isNamingTemplate' = TRUE
            /\ UNCHANGED confirmation
    /\ lastOp' = NoOp
    /\ UNCHANGED <<dashUnchanged, bookings, templates, currentDate, bookingModal,
                   quickBookingModal, selectedTemplateId, nextId>>

\* PromptModal confirm 2007-2013: executeSaveTemplate 1433-1462
ExecuteSaveTemplate ==
    /\ isNamingTemplate
    /\ nextId <= MaxId
    /\ templates' = Append(templates,
                           [id |-> nextId,
                            positionalBookings |-> CaptureTemplate(bookings, weekDateStrings)])
    /\ nextId' = nextId + 1
    /\ isNamingTemplate' = FALSE
    /\ lastOp' = [op |-> "saveTemplate"]
    /\ UNCHANGED <<dashUnchanged, bookings, currentDate, bookingModal, quickBookingModal,
                   selectedTemplateId, confirmation>>

\* 2009: onClose={() => setIsNamingTemplate(false)}
CancelNaming ==
    /\ isNamingTemplate
    /\ isNamingTemplate' = FALSE
    /\ lastOp' = NoOp
    /\ UNCHANGED <<dashUnchanged, bookings, templates, currentDate, bookingModal,
                   quickBookingModal, selectedTemplateId, confirmation, nextId>>

\* 1659: the select offers '' and every template's id
SelectTemplate(templateId) ==
    /\ ~DialogOpen
    /\ templateId = 0 \/ FindTemplate(templates, templateId) # NoTemplate
    /\ templateId # selectedTemplateId
    /\ selectedTemplateId' = templateId
    /\ lastOp' = NoOp
    /\ UNCHANGED <<dashUnchanged, bookings, templates, currentDate, bookingModal,
                   quickBookingModal, confirmation, isNamingTemplate, nextId>>

\* a handler that applies the selected template at once, without a dialog
HandleApplyTemplateAtOnce ==
    /\ ~DialogOpen
    /\ selectedTemplateId # 0
    /\ FindTemplate(templates, selectedTemplateId) # NoTemplate
    /\ LET template == FindTemplate(templates, selectedTemplateId)
       IN /\ nextId + Len(template.positionalBookings) - 1 <= MaxId
          /\ bookings' = ApplyTemplate(bookings, template.positionalBookings, nextId,
                                       weekStartDate, weekDateStrings)
          /\ nextId' = nextId + Len(template.positionalBookings)
    /\ lastOp' = NoOp
    /\ UNCHANGED <<dashUnchanged, templates, currentDate, bookingModal, quickBookingModal,
                   selectedTemplateId, isNamingTemplate, confirmation>>

\* handleApplyTemplate 1510-1521 behind its button, which is disabled while no
\* template is selected (1663)
HandleApplyTemplate ==
    /\ ~DialogOpen
    /\ selectedTemplateId # 0                           \* disabled={!selectedTemplateId}
    /\ IF selectedTemplateId = 0
       THEN /\ confirmation' = confirmation            \* setAlertMessage(..); return
            /\ lastOp' = [op |-> "alert", message |-> "Seleziona un template da applicare."]
       ELSE /\ confirmation' = [kind |-> "applyTemplate"]
            /\ lastOp' = NoOp
    /\ UNCHANGED <<dashUnchanged, bookings, templates, currentDate, bookingModal,
                   quickBookingModal, selectedTemplateId, isNamingTemplate, nextId>>

\* 1664-1682: the delete button of the template manager
HandleDeleteTemplate ==
    /\ ~DialogOpen
    /\ selectedTemplateId # 0
    /\ FindTemplate(templates, selectedTemplateId) # NoTemplate
    /\ confirmation' = [kind |-> "deleteTemplate", id |-> selectedTemplateId]
    /\ lastOp' = NoOp
    /\ UNCHANGED <<dashUnchanged, bookings, templates, currentDate, bookingModal,
                   quickBookingModal, selectedTemplateId, isNamingTemplate, nextId>>

\* 2017: onClose={() => setConfirmation(null)}
CancelConfirmation ==
    /\ confirmation # NoConfirmation
    /\ confirmation' = NoConfirmation
    /\ lastOp' = [op |-> "cancel", kind |-> confirmation.kind]
    /\ UNCHANGED <<dashUnchanged, bookings, templates, currentDate, bookingModal,
                   quickBookingModal, selectedTemplateId, isNamingTemplate, nextId>>

\* 2018-2021 with onConfirm of 1472: setIsNamingTemplate(true)
ConfirmSaveEmptyTemplate ==
    /\ confirmation = [kind |-> "saveEmptyTemplate"]
    /\ isNamingTemplate' = TRUE
    /\ confirmation' = NoConfirmation
    /\ lastOp' = NoOp
    /\ UNCHANGED <<dashUnchanged, bookings, templates, currentDate, bookingModal,
                   quickBookingModal, selectedTemplateId, nextId>>

\* 2018-2021 with onConfirm of 1519: executeApplyTemplate 1479-1508
ConfirmApplyTemplate ==
    /\ confirmation = [kind |-> "applyTemplate"]
    /\ LET template == FindTemplate(templates, selectedTemplateId)
       IN IF template = NoTemplate
          THEN UNCHANGED <<bookings, nextId>>
          ELSE /\ nextId + Len(template.positionalBookings) - 1 <= MaxId
               /\ bookings' = ApplyTemplate(bookings, template.positionalBookings, nextId,
                                            weekStartDate, weekDateStrings)
               /\ nextId' = nextId + Len(template.positionalBookings)
    /\ confirmation' = NoConfirmation
    /\ lastOp' = [op |-> "applyTemplate", week |-> weekDateStrings,
                  before |-> bookings, template |-> selectedTemplateId]
    /\ UNCHANGED <<dashUnchanged, templates, currentDate, bookingModal, quickBookingModal,
                   selectedTemplateId, isNamingTemplate>>

\* 2018-2021 with onConfirm of 1679: executeDeleteTemplate 1523-1532
ConfirmDeleteTemplate ==
    /\ confirmation # NoConfirmation
    /\ confirmation.kind = "deleteTemplate"
    /\ templates' = SelectSeq(templates, LAMBDA t : t.id # confirmation.id)
    /\ selectedTemplateId' = IF selectedTemplateId = confirmation.id THEN 0
                             ELSE selectedTemplateId
    /\ confirmation' = NoConfirmation
    /\ lastOp' = [op |-> "deleteTemplate"]
    /\ UNCHANGED <<dashUnchanged, bookings, currentDate, bookingModal, quickBookingModal,
                   isNamingTemplate, nextId>>

\* the booking dialog of the instrument grid
GridDialog ==
    \/ \E instrumentId \in InstrumentIds, cell \in ClickCells :
           OpenBookingModal(instrumentId, cell[1], cell[2])
    \/ CloseBookingModal
    \/ \E personnelId \in PersonIds, note \in Notes, userConfirms \in BOOLEAN :
           BookingModalSave(personnelId, note, userConfirms)
    \/ BookingModalDelete

\* the quick-add dialog of the personnel schedule
QuickAddDialog ==
    \/ \E personId \in PersonIds, cell \in ClickCells :
           OpenQuickAdd(personId, cell[1], cell[2])
    \/ CloseQuickAdd
    \/ \E instrumentId \in InstrumentIds, note \in Notes, userConfirms \in BOOLEAN :
           QuickAddSave(instrumentId, note, userConfirms)

\* the template manager
TemplateManager ==
    \/ HandleSaveTemplate
    \/ ExecuteSaveTemplate
    \/ CancelNaming
    \/ \E templateId \in {0, 950} \cup (1..MaxId) : SelectTemplate(templateId)
    \/ HandleApplyTemplate
    \/ HandleDeleteTemplate
    \/ CancelConfirmation
    \/ ConfirmSaveEmptyTemplate
    \/ ConfirmApplyTemplate
    \/ ConfirmDeleteTemplate

NextGrid == PreviousWeek \/ NextWeek \/ GridDialog
SpecGrid == InitDashboard /\ [][NextGrid]_vars

NextBooking == PreviousWeek \/ NextWeek \/ GridDialog \/ QuickAddDialog \/ TemplateManager
SpecBooking == InitDashboard /\ [][NextBooking]_vars

----------------------------------------------------------------------------
(* Properties of the booking store and of the template engine *)

SameSlot(a, b) ==
    /\ a.instrumentId = b.instrumentId
    /\ a.date = b.date
    /\ a.slot = b.slot

OnePerSlot(list) ==
    \A i, j \in 1..Len(list) : SameSlot(list[i], list[j]) => i = j

\* C9: starting from a collection with at most one booking per (instrumentId,
\* date, slot), saves and deletes made only through the booking dialog of the
\* instrument grid keep at most one booking per (instrumentId, date, slot).
C9_GridKeepsOnePerSlot == OnePerSlot(bookings)

\* the seed booking was edited in place (another person, same id) next to a
\* booking the dialog created with a fresh id
C9_Witness ==
    /\ lastOp = [op |-> "gridSave"]
    /\ Len(bookings) = 2
    /\ \E i, j \in 1..Len(bookings) :
           /\ bookings[i].id = 901 /\ bookings[i].personnelId = "p2"
           /\ bookings[j].id \in 1..MaxId

\* C1: in every state reachable through the booking operations of the page
\* (save from the grid dialog, save from the quick-add dialog, delete, template
\* apply) no (instrumentId, date, slot) holds more than one booking.
C1_OneBookingPerSlot ==
    \A i \in 1..Len(bookings) :
        Cardinality({j \in 1..Len(bookings) : SameSlot(bookings[i], bookings[j])}) <= 1

\* the (instrumentId, date, slot, personnelId) tuples a collection holds on the
\* dates of a week
WeekTuples(list, dateStrings) ==
    { <<list[i].instrumentId, list[i].date, list[i].slot, list[i].personnelId>> :
        i \in {k \in 1..Len(list) : Includes(dateStrings, list[k].date)} }

\* C4: when a week with at most one booking per (instrumentId, date, slot) is
\* saved as a template and that template is applied to the same week and the
\* same collection, the week holds the same (instrumentId, date, slot,
\* personnelId) tuples as before.
C4_TemplateRoundTrip ==
    ( /\ lastOp.op = "applyTemplate"
      /\ OnePerSlot(lastOp.before)
      /\ FindTemplate(templates, lastOp.template).positionalBookings
             = CaptureTemplate(lastOp.before, lastOp.week) )
    => WeekTuples(bookings, lastOp.week) = WeekTuples(lastOp.before, lastOp.week)

----------------------------------------------------------------------------
(* Status grid and absence editor, src/index.tsx 1420-1431, 1890-1915,      *)
(* 2808-2826                                                                *)

\* the (person, day index, slot) cell of the status grid that is clicked
StatusCells == {<<"p2", 4, SlotP>>}

BaseFriday == 20250103

\* what is entered in the absence form
AbsenceFormPersons == {"p2"}
AbsenceFormTypes == {"ferie", "malattia", "fisse"}
\* the two date inputs of the form (2997-3004) are independent of each other
AbsenceFormRanges ==
    {<<BaseMonday, BaseFriday>>, <<BaseFriday, BaseFriday>>, <<BaseFriday, BaseMonday>>}

TypeIds == {absenceTypes[i].id : i \in 1..Len(absenceTypes)}

\* a picker and a form that offer every absence type
UnfilteredTypeIds == TypeIds

\* 1967 and 2994: data.absenceTypes.filter(at => at.id !== 'fisse')
SelectableTypeIds == TypeIds \ {"fisse"}

absenceUnchanged == <<tz, swVars, calVars, personnel, absenceTypes, unprocessedAbsences, bookings,
                      templates, currentDate, bookingModal, quickBookingModal,
                      selectedTemplateId, confirmation, isNamingTemplate, appVars>>

\* 1898 / 1912: setEditingStatus({ key: `${person.id}-${dateStr}-M|P`, .. })
OpenStatusPicker(personId, dayIndex, slot) ==
    /\ ~DialogOpen
    /\ editingStatus' = [open |-> TRUE,
                         key |-> <<personId, weekDateStrings[dayIndex + 1], slot>>]
    /\ lastOp' = NoOp
    /\ UNCHANGED <<absenceUnchanged, absences, statusOverrides, pendingImport, nextId>>

\* 1965: onClose={() => setEditingStatus(null)}
CloseStatusPicker ==
    /\ editingStatus # NoModal
    /\ editingStatus' = NoModal
    /\ lastOp' = NoOp
    /\ UNCHANGED <<absenceUnchanged, absences, statusOverrides, pendingImport, nextId>>

\* StatusPicker onSelect 3101-3114, then handleStatusChange 1420-1431
HandleStatusChange(typeId) ==
    /\ editingStatus # NoModal
    /\ typeId \in {"present", "reset"} \cup SelectableTypeIds
    /\ LET key == editingStatus.key
       IN statusOverrides' =
              IF typeId = "reset"
              THEN [k \in DOMAIN statusOverrides \ {key} |-> statusOverrides[k]]
              ELSE [k \in DOMAIN statusOverrides \cup {key} |->
                        IF k = key THEN typeId ELSE statusOverrides[k]]
    /\ editingStatus' = NoModal
    /\ lastOp' = [op |-> "statusChange"]
    /\ UNCHANGED <<absenceUnchanged, absences, pendingImport, nextId>>

\* AbsenceManager.handleSave 2808-2819.  editingId is editing.id, 0 for a new
\* absence; the form offers every absence type but 'fisse' (2994).
AbsenceSave(editingId, personnelId, typeId, startDate, endDate) ==
    /\ ~DialogOpen /\ editingStatus = NoModal
    /\ personnelId # "" /\ typeId \in SelectableTypeIds
    /\ editingId = 0 \/ \E i \in 1..Len(absences) : absences[i].id = editingId
    /\ editingId = 0 => nextId <= MaxId
    /\ absences' =
           IF editingId # 0
           THEN [i \in 1..Len(absences) |->
                    IF absences[i].id = editingId
                    THEN [absences[i] EXCEPT !.personnelId = personnelId, !.typeId = typeId,
                                             !.startDate = startDate, !.endDate = endDate]
                    ELSE absences[i]]
           ELSE Append(absences,
                       [id |-> nextId, personnelId |-> personnelId, startDate |-> startDate,
                        endDate |-> endDate, typeId |-> typeId, note |-> <<>>])
    /\ nextId' = IF editingId # 0 THEN nextId ELSE nextId + 1
    /\ lastOp' = [op |-> "absenceSave"]
    /\ UNCHANGED <<absenceUnchanged, statusOverrides, editingStatus, pendingImport>>

\* handleConfirmAbsenceDelete 2821-2826 with absenceToDelete.id = absenceId
AbsenceDelete(absenceId) ==
    /\ ~DialogOpen /\ editingStatus = NoModal
    /\ \E i \in 1..Len(absences) : absences[i].id = absenceId
    /\ absences' = SelectSeq(absences, LAMBDA a : a.id # absenceId)
    /\ lastOp' = [op |-> "absenceDelete"]
    /\ UNCHANGED <<absenceUnchanged, statusOverrides, editingStatus, pendingImport, nextId>>

StatusGrid ==
    \/ \E cell \in StatusCells : OpenStatusPicker(cell[1], cell[2], cell[3])
    \/ CloseStatusPicker
    \/ \E typeId \in {"present", "reset"} \cup TypeIds : HandleStatusChange(typeId)

AbsenceEditor ==
    \/ \E editingId \in {0, 900} \cup (1..MaxId), personnelId \in AbsenceFormPersons,
          typeId \in AbsenceFormTypes, range \in AbsenceFormRanges :
           AbsenceSave(editingId, personnelId, typeId, range[1], range[2])
    \/ \E absenceId \in {900} \cup (1..MaxId) : AbsenceDelete(absenceId)

\* the status grid does not read the bookings
InitStatus == InitDashboard /\ bookings = <<>>

NextStatus == StatusGrid \/ AbsenceEditor
SpecStatus == InitStatus /\ [][NextStatus]_vars

\* the type ids of the ad-hoc absences of a person that cover a date
AdHocTypeIds(personId, dateStr) ==
    { absences[i].typeId :
        i \in {k \in 1..Len(absences) :
                  /\ absences[k].personnelId = personId
                  /\ absences[k].startDate <= dateStr
                  /\ dateStr <= absences[k].endDate} }

\* C2: the status shown for (person, date, slot) is decided by the first of
\* override, ad-hoc absence, fixed weekly absence that exists: an override
\* 'present' shows present (no absence), an override naming an absence type
\* shows that type, and without an override a covering ad-hoc absence decides
\* the type even when a fixed absence covers the slot too.
C2_StatusPrecedence ==
    LET dates == weekDates
        dateStrings == weekDateStrings
    IN \A i \in 1..Len(personnel), d \in 1..5, slot \in Slots :
        LET personId == personnel[i].id
            override == OverrideOf(personId, dateStrings[d], slot)
            adHoc == AdHocTypeIds(personId, dateStrings[d])
            shown == PersonnelStatusCell(personId, dates[d], slot)
        IN /\ override = "present"
              => shown = [absenceDetails |-> NoType, isPresent |-> TRUE]
           /\ override \in TypeIds
              => shown.absenceDetails.id = override /\ ~shown.isPresent
           /\ (override = "" /\ adHoc # {} /\ adHoc \subseteq TypeIds)
              => shown.absenceDetails.id \in adHoc /\ ~shown.isPresent

\* a slot covered by a fixed absence and by an ad-hoc absence of another type
FixedAndAdHoc(personId, d, slot) ==
    LET fixed == FixedAbsenceTypeId(FindPersonById(personnel, personId), d - 1, slot)
        adHoc == AdHocTypeIds(personId, weekDateStrings[d])
    IN fixed \in TypeIds /\ adHoc # {} /\ adHoc \subseteq TypeIds /\ fixed \notin adHoc

\* the picker has just put 'present' on a slot that a fixed absence and an
\* ad-hoc absence both cover
C2_Witness ==
    /\ lastOp = [op |-> "statusChange"]
    /\ \E i \in 1..Len(personnel), d \in 1..5, slot \in Slots :
           /\ FixedAndAdHoc(personnel[i].id, d, slot)
           /\ OverrideOf(personnel[i].id, weekDateStrings[d], slot) = "present"

----------------------------------------------------------------------------
(* Absence import and reprocess, src/index.tsx 2857-2962 *)

FailureReasonImport == "Nessuna sigla trovata nel testo."
FailureReasonReprocess == "Sigla non trovata nel testo."

\* seq.map(x => x.record)
Records(seq) == [i \in 1..Len(seq) |-> seq[i].record]

\* the for loop of handleAbsenceImport 2869-2890: what each event becomes
ImportRecords(events, personnelList, ferieType, firstId) ==
    [i \in 1..Len(events) |->
        LET person == findPersonnelFromSummary(events[i].summary, personnelList)
        IN IF person # NoPerson
           THEN [absence |-> TRUE,
                 record |-> [id |-> firstId + i - 1, personnelId |-> person.id,
                             startDate |-> events[i].startDate,
                             endDate |-> events[i].endDate,
                             typeId |-> ferieType.id, note |-> events[i].summary]]
           ELSE [absence |-> FALSE,
                 record |-> [id |-> firstId + i - 1, summary |-> events[i].summary,
                             startDate |-> events[i].startDate,
                             endDate |-> events[i].endDate,
                             failureReason |-> FailureReasonImport]]]

\* handleReprocess 2921: person && ferieType
IsProcessed(item, personnelList, ferieType) ==
    findPersonnelFromSummary(item.summary, personnelList) # NoPerson /\ ferieType # NoType

\* a reprocess that leaves every item in the queue
StillUnprocessedAll(queue, personnelList, ferieType) ==
    [i \in 1..Len(queue) |-> [queue[i] EXCEPT !.failureReason = FailureReasonReprocess]]

\* handleReprocess 2935-2938: the items that stay, with their failureReason rewritten
StillUnprocessed(queue, personnelList, ferieType) ==
    LET kept == SelectSeq(queue, LAMBDA item : ~IsProcessed(item, personnelList, ferieType))
    IN [i \in 1..Len(kept) |-> [kept[i] EXCEPT !.failureReason = FailureReasonReprocess]]

\* handleReprocess 2922-2931: the absences the matched items become
NewlyProcessed(queue, personnelList, ferieType, firstId) ==
    LET matched == SelectSeq(queue, LAMBDA item : IsProcessed(item, personnelList, ferieType))
    IN [i \in 1..Len(matched) |->
           [id |-> firstId + i - 1,
            personnelId |-> findPersonnelFromSummary(matched[i].summary, personnelList).id,
            startDate |-> matched[i].startDate, endDate |-> matched[i].endDate,
            typeId |-> ferieType.id, note |-> matched[i].summary]]

\* item.failureReason = .. (2936) writes into the item object itself: every
\* array that holds the object sees the new text
MutateReasons(queue, mutatedIds) ==
    [i \in 1..Len(queue) |->
        IF queue[i].id \in mutatedIds
        THEN [queue[i] EXCEPT !.failureReason = FailureReasonReprocess]
        ELSE queue[i]]

importUnchanged == <<tz, swVars, calVars, bookings, templates, statusOverrides, currentDate,
                     bookingModal, quickBookingModal, editingStatus, selectedTemplateId,
                     confirmation, isNamingTemplate, appVars>>

\* handleFileSelected 2952-2962: a FileReader is started; its onload closure
\* holds the handleAbsenceImport, and so the data, of the current render
HandleFileSelected(fileContent) ==
    /\ pendingImport = NoImport
    /\ pendingImport' = [active |-> TRUE, fileContent |-> fileContent,
                         personnel |-> personnel, absenceTypes |-> absenceTypes,
                         absences |-> absences,
                         unprocessedAbsences |-> unprocessedAbsences]
    /\ lastOp' = NoOp
    /\ UNCHANGED <<importUnchanged, personnel, absenceTypes, absences, unprocessedAbsences,
                   nextId>>

\* reader.onload 2956-2958: handleAbsenceImport 2857-2910 on the data of the closure
ImportLoaded ==
    /\ pendingImport # NoImport
    /\ LET data == pendingImport
           events == parseICS(data.fileContent)
           ferieType == FindType(data.absenceTypes, "ferie")
           records == ImportRecords(events, data.personnel, ferieType, nextId)
           newAbsences == Records(SelectSeq(records, LAMBDA r : r.absence))
           unprocessed == Records(SelectSeq(records, LAMBDA r : ~r.absence))
       IN /\ lastOp' = [op |-> "import", events |-> events, absences |-> absences,
                        unprocessedAbsences |-> unprocessedAbsences,
                        stale |-> \/ data.absences # absences
                                  \/ data.unprocessedAbsences # unprocessedAbsences
                                  \/ data.personnel # personnel
                                  \/ data.absenceTypes # absenceTypes]
          /\ IF ferieType = NoType
             THEN UNCHANGED <<absences, unprocessedAbsences, nextId>>
             ELSE /\ nextId + Len(events) - 1 <= MaxId
                  /\ absences' = IF Len(newAbsences) > 0 THEN data.absences \o newAbsences
                                 ELSE absences
                  /\ unprocessedAbsences' =
                         IF Len(unprocessed) > 0
                         THEN data.unprocessedAbsences \o unprocessed
                         ELSE unprocessedAbsences
                  /\ nextId' = nextId + Len(events)
    /\ pendingImport' = NoImport
    /\ UNCHANGED <<importUnchanged, personnel, absenceTypes>>

\* handleReprocess 2912-2950
HandleReprocess ==
    /\ Len(unprocessedAbsences) # 0
    /\ LET ferieType == FindType(absenceTypes, "ferie")
           newlyProcessed == NewlyProcessed(unprocessedAbsences, personnel, ferieType, nextId)
           stillUnprocessed == StillUnprocessed(unprocessedAbsences, personnel, ferieType)
           processedCount == Len(newlyProcessed)
           mutatedIds == {stillUnprocessed[i].id : i \in 1..Len(stillUnprocessed)}
       IN /\ nextId + processedCount - 1 <= MaxId
          /\ IF processedCount > 0
             THEN /\ absences' = absences \o newlyProcessed
                  /\ unprocessedAbsences' = stillUnprocessed
             ELSE /\ UNCHANGED absences
                  /\ unprocessedAbsences' = MutateReasons(unprocessedAbsences, mutatedIds)
          /\ nextId' = nextId + processedCount
          /\ pendingImport' =
                 IF pendingImport = NoImport THEN NoImport
                 ELSE [pendingImport EXCEPT !.unprocessedAbsences =
                           MutateReasons(pendingImport.unprocessedAbsences, mutatedIds)]
          /\ lastOp' = [op |-> "reprocess", committed |-> processedCount,
                        run |-> IF lastOp.op = "reprocess" THEN 2 ELSE 1,
                        before |-> IF lastOp.op = "reprocess" THEN lastOp.before
                                   ELSE Len(unprocessedAbsences)]
    /\ UNCHANGED <<importUnchanged, personnel, absenceTypes>>

\* CrudComponent.handleSave 2202-2216 on the personnel tab, the initials edited
SavePersonInitials(personId, initials) ==
    /\ \E i \in 1..Len(personnel) : personnel[i].id = personId
    /\ personnel' = [i \in 1..Len(personnel) |->
                        IF personnel[i].id = personId
                        THEN [personnel[i] EXCEPT !.initials = initials]
                        ELSE personnel[i]]
    /\ lastOp' = [op |-> "personSave"]
    /\ UNCHANGED <<importUnchanged, absenceTypes, absences, unprocessedAbsences,
                   pendingImport, nextId>>

\* CrudComponent.handleConfirmDelete 2218-2223 on the absence types tab
DeleteAbsenceType(typeId) ==
    /\ typeId \in TypeIds
    /\ absenceTypes' = SelectSeq(absenceTypes, LAMBDA t : t.id # typeId)
    /\ lastOp' = [op |-> "typeDelete"]
    /\ UNCHANGED <<importUnchanged, personnel, absences, unprocessedAbsences,
                   pendingImport, nextId>>

\* calendar files the user picks: an all-day event of LB, a timed event without
\* initials, and both
EventLB ==
    <<TextLine("SUMMARY", <<"[", "L", "B", "]">>),
      DateLine("DTSTART", "VALUE=DATE", BaseMonday, FALSE),
      DateLine("DTEND", "VALUE=DATE", 20250101, FALSE)>>
EventX ==
    <<TextLine("SUMMARY", <<"X">>),
      DateLine("DTSTART", "", BaseFriday, TRUE),
      DateLine("DTEND", "", BaseFriday, TRUE)>>
ImportFiles == {<<EventLB>>, <<EventX>>, <<EventLB, EventX>>}

\* the initials typed for p1 on the personnel tab
InitialsInputs == {<<"M", "R">>, <<"X">>}

QueueItem(id, summary) ==
    [id |-> id, summary |-> summary, startDate |-> BaseFriday, endDate |-> BaseFriday,
     failureReason |-> FailureReasonImport]

\* queues left by earlier imports
SeedQueues == {<<>>, <<QueueItem(910, <<"X">>), QueueItem(911, <<"Z">>)>>}

InitAbsence ==
    /\ tz = 1
    /\ NoWorker
    /\ call = NoOp /\ ret = NoRet /\ pc = "idle"
    /\ personnel = SeedPersonnel
    /\ absenceTypes = SeedAbsenceTypes
    /\ absences = SeedAbsences
    /\ unprocessedAbsences \in SeedQueues
    /\ bookings = <<>>
    /\ templates = SeedTemplates
    /\ statusOverrides = EmptyMap
    /\ currentDate = ParseLocalMidnight(BaseDateStr)
    /\ bookingModal = NoModal
    /\ quickBookingModal = NoModal
    /\ editingStatus = NoModal
    /\ selectedTemplateId = 0
    /\ confirmation = NoConfirmation
    /\ isNamingTemplate = FALSE
    /\ pendingImport = NoImport
    /\ nextId = 1
    /\ lastOp = NoOp
    /\ AppIdle

\* the ICS import of the absence tab
AbsenceImport ==
    \/ \E fileContent \in ImportFiles : HandleFileSelected(fileContent)
    \/ ImportLoaded

\* what else is done on the data management tabs meanwhile
DataManagement ==
    \/ HandleReprocess
    \/ \E initials \in InitialsInputs : SavePersonInitials("p1", initials)
    \/ DeleteAbsenceType("ferie")
    \/ AbsenceSave(0, "p1", "malattia", BaseFriday, BaseFriday)

NextAbsence == AbsenceImport \/ DataManagement
SpecAbsence == InitAbsence /\ [][NextAbsence]_vars

\* C7: when the reprocess operation runs twice in a row, the second run commits
\* no absence and leaves the absence list and the unprocessed queue as the
\* first run left them.
C7_ReprocessTwice ==
    [][ (lastOp.op = "reprocess" /\ lastOp'.op = "reprocess")
        => /\ lastOp'.committed = 0
           /\ absences' = absences
           /\ unprocessedAbsences' = unprocessedAbsences ]_vars

\* a second run in a row, after a first run that committed part of the queue
C7_Witness ==
    /\ lastOp.op = "reprocess"
    /\ lastOp.run = 2
    /\ Len(unprocessedAbsences) > 0
    /\ Len(unprocessedAbsences) < lastOp.before

\* the entries of a list after its first n
After(list, n) == IF Len(list) <= n THEN <<>> ELSE SubSeq(list, n + 1, Len(list))

\* C10: an import turns every parsed event into exactly one appended record,
\* an absence of the matched person (type 'ferie', the event's dates, the
\* summary as note) or an unprocessed entry (summary, dates, failure reason),
\* and keeps the absences and unprocessed entries that existed before it.
C10_ImportAppends ==
    lastOp.op = "import" =>
        LET events == lastOp.events
            matched == SelectSeq(events, LAMBDA e :
                           findPersonnelFromSummary(e.summary, personnel) # NoPerson)
            unmatched == SelectSeq(events, LAMBDA e :
                           findPersonnelFromSummary(e.summary, personnel) = NoPerson)
            newAbsences == After(absences, Len(lastOp.absences))
            newUnprocessed == After(unprocessedAbsences, Len(lastOp.unprocessedAbsences))
        IN /\ Len(absences) >= Len(lastOp.absences)
           /\ SubSeq(absences, 1, Len(lastOp.absences)) = lastOp.absences
           /\ Len(unprocessedAbsences) >= Len(lastOp.unprocessedAbsences)
           /\ SubSeq(unprocessedAbsences, 1, Len(lastOp.unprocessedAbsences))
                  = lastOp.unprocessedAbsences
           /\ Len(newAbsences) = Len(matched)
           /\ \A i \in 1..Len(matched) :
                  /\ newAbsences[i].personnelId
                         = findPersonnelFromSummary(matched[i].summary, personnel).id
                  /\ newAbsences[i].typeId = "ferie"
                  /\ newAbsences[i].startDate = matched[i].startDate
                  /\ newAbsences[i].endDate = matched[i].endDate
                  /\ newAbsences[i].note = matched[i].summary
           /\ Len(newUnprocessed) = Len(unmatched)
           /\ \A i \in 1..Len(unmatched) :
                  /\ newUnprocessed[i].summary = unmatched[i].summary
                  /\ newUnprocessed[i].startDate = unmatched[i].startDate
                  /\ newUnprocessed[i].endDate = unmatched[i].endDate
                  /\ newUnprocessed[i].failureReason = FailureReasonImport

----------------------------------------------------------------------------
(* Template application, src/index.tsx 1479-1508 *)

\* the positions (instrumentId, dayOfWeek, slot) whose composite key is `key`
EntryPositions(key) ==
    { pos \in InstrumentIds \X (0..4) \X Slots : PositionKey(pos[1], pos[2], pos[3]) = key }

\* the bookings of a collection dated inside / outside the dates of a week
InsideWeek(list, dateStrings) == SelectSeq(list, LAMBDA b : Includes(dateStrings, b.date))
OutsideWeek(list, dateStrings) == SelectSeq(list, LAMBDA b : ~Includes(dateStrings, b.date))

\* booking b is what entry e stands for in the week of dateStrings
BookingMatchesEntry(b, e, dateStrings) ==
    \E pos \in EntryPositions(e.key) :
        /\ b.instrumentId = pos[1]
        /\ b.slot = pos[3]
        /\ b.date = dateStrings[pos[2] + 1]
        /\ b.personnelId = e.personnelId
        /\ b.note = e.note

Bijections(n) == { f \in [1..n -> 1..n] : \A i, j \in 1..n : f[i] = f[j] => i = j }

\* the template the last application used, NoTemplate when it found none
AppliedTemplate ==
    IF lastOp.op = "applyTemplate" THEN FindTemplate(templates, lastOp.template)
    ELSE NoTemplate

\* C11: after a template is applied to a week, the bookings dated outside the
\* week's five dates are exactly as before, no booking that was inside the week
\* survives, and the bookings inside the week are exactly one per template
\* entry, carrying the entry's instrumentId, slot, personnelId and note on the
\* date week start + the entry's dayOfWeek.
C11_ApplyReplacesWeek ==
    AppliedTemplate # NoTemplate =>
        LET entries == AppliedTemplate.positionalBookings
            inside == InsideWeek(bookings, lastOp.week)
            old == InsideWeek(lastOp.before, lastOp.week)
        IN /\ OutsideWeek(bookings, lastOp.week) = OutsideWeek(lastOp.before, lastOp.week)
           /\ \A i \in 1..Len(old) : \A j \in 1..Len(bookings) : bookings[j].id # old[i].id
           /\ Len(inside) = Len(entries)
           /\ \E f \in Bijections(Len(entries)) :
                  \A i \in 1..Len(entries) :
                      BookingMatchesEntry(inside[f[i]], entries[i], lastOp.week)

\* the same statement for templates whose instrument ids hold no hyphen
C11_HoldsWithoutHyphen ==
    ( /\ AppliedTemplate # NoTemplate
      /\ \A i \in 1..Len(AppliedTemplate.positionalBookings) :
             EntryPositions(AppliedTemplate.positionalBookings[i].key) \subseteq
                 {Instrument1} \X (0..4) \X Slots )
    => C11_ApplyReplacesWeek

\* a template with an entry was applied over a week that held a booking
C11_Reached ==
    /\ AppliedTemplate # NoTemplate
    /\ Len(AppliedTemplate.positionalBookings) >= 1
    /\ InsideWeek(lastOp.before, lastOp.week) # <<>>
    /\ \A i \in 1..Len(AppliedTemplate.positionalBookings) :
           EntryPositions(AppliedTemplate.positionalBookings[i].key) \subseteq
               {Instrument1} \X (0..4) \X Slots

----------------------------------------------------------------------------
(* JSON documents: what JSON.parse returns and what the App keeps in `data`. *)
(* A value is a record tagged by its type; an object is a function from its *)
(* keys to values (key order is not kept), an array a sequence.              *)
(* Strings are TLA+ strings here; of the non-empty ones only their text is   *)
(* used (a document whose top level is a non-empty string is not considered).*)

JNull == [t |-> "null"]
JUndefined == NoDocument
JBool(b) == [t |-> "bool", v |-> b]
JNum(n) == [t |-> "num", v |-> n]
JStr(text) == [t |-> "str", v |-> text]
JArr(items) == [t |-> "arr", v |-> items]
JObj(fields) == [t |-> "obj", v |-> fields]

\* the outcome of a block that threw
Raised == [t |-> "raise"]

Nullish(v) == v.t \in {"null", "undefined"}

\* ToBoolean
Truthy(v) ==
    CASE v.t \in {"null", "undefined"} -> FALSE
      [] v.t = "bool" -> v.v
      [] v.t = "num" -> v.v # 0
      [] v.t = "str" -> v.v # ""
      [] OTHER -> TRUE

\* a || b
Or(a, b) == IF Truthy(a) THEN a ELSE b

\* v.k and v[k] on a value that is not null or undefined
Prop(v, k) == IF v.t = "obj" /\ k \in DOMAIN v.v THEN v.v[k] ELSE JUndefined

\* String(v) / `${v}`
RECURSIVE ToText(_)
RECURSIVE JoinTexts(_)
JoinTexts(items) ==
    IF items = <<>> THEN ""
    ELSE IF Len(items) = 1 THEN (IF Nullish(items[1]) THEN "" ELSE ToText(items[1]))
    ELSE (IF Nullish(items[1]) THEN "" ELSE ToText(items[1])) \o "," \o JoinTexts(Tail(items))
ToText(v) ==
    CASE v.t = "str" -> v.v
      [] v.t = "num" -> ToString(v.v)
      [] v.t = "bool" -> (IF v.v THEN "true" ELSE "false")
      [] v.t = "null" -> "null"
      [] v.t = "undefined" -> "undefined"
      [] v.t = "arr" -> JoinTexts(v.v)
      [] OTHER -> "[object Object]"

\* { ...a, ...b } on the key-value functions of two objects
Merge(a, b) == [k \in DOMAIN a \cup DOMAIN b |-> IF k \in DOMAIN b THEN b[k] ELSE a[k]]

\* obj[k] = val and delete obj[k]
SetProp(fields, k, val) == [x \in DOMAIN fields \cup {k} |-> IF x = k THEN val ELSE fields[x]]
DeleteProp(fields, k) == [x \in DOMAIN fields \ {k} |-> fields[x]]

\* the own enumerable properties { ...v } copies
SpreadOf(v) ==
    CASE v.t = "obj" -> v.v
      [] v.t = "arr" -> [k \in {ToString(i - 1) : i \in 1..Len(v.v)} |->
                            v.v[CHOOSE i \in 1..Len(v.v) : ToString(i - 1) = k]]
      [] OTHER -> EmptyMap

\* JSON.parse(JSON.stringify(v)): properties holding undefined are dropped,
\* undefined array elements become null
RECURSIVE Stringified(_)
Stringified(v) ==
    CASE v.t = "obj" -> JObj([k \in {x \in DOMAIN v.v : v.v[x].t # "undefined"} |->
                                 Stringified(v.v[k])])
      [] v.t = "arr" -> JArr([i \in 1..Len(v.v) |->
                                 IF v.v[i].t = "undefined" THEN JNull ELSE Stringified(v.v[i])])
      [] OTHER -> v

\* arr.some(hit) where the callback reads a property of the element: it throws
\* on a null element met before the first hit
SomeOrRaise(items, Hit(_)) ==
    LET stops == {i \in 1..Len(items) : Nullish(items[i]) \/ Hit(items[i])}
    IN IF stops = {} THEN JBool(FALSE)
       ELSE IF Nullish(items[CHOOSE i \in stops : \A j \in stops : i <= j]) THEN Raised
       ELSE JBool(TRUE)

HasNullish(items) == \E i \in 1..Len(items) : Nullish(items[i])

----------------------------------------------------------------------------
(* Persistence, src/index.tsx 297-317 (initialData), 325-419                *)
(* (getDefaultData), 421-513 (loadData), 515-521 (saveData)                 *)

FisseBoth == JObj([M |-> JStr("fisse"), P |-> JStr("fisse")])

initialData ==
    JObj([instruments |-> JArr(<<>>),
          instrumentCategories |-> JArr(<<>>),
          personnel |-> JArr(<<>>),
          absenceTypes |-> JArr(<< JObj([id |-> JStr("fuori_sede"), name |-> JStr("Fuori sede")]),
                                   JObj([id |-> JStr("ferie"), name |-> JStr("Ferie")]),
                                   JObj([id |-> JStr("malattia"), name |-> JStr("Malattia")]),
                                   JObj([id |-> JStr("telelavoro"), name |-> JStr("Telelavoro")]),
                                   JObj([id |-> JStr("fisse"), name |-> JStr("Assenza Fissa")]) >>),
          absences |-> JArr(<<>>),
          unprocessedAbsences |-> JArr(<<>>),
          campaigns |-> JArr(<<>>),
          campaignCategories |-> JArr(<<>>),
          bookings |-> JArr(<<>>),
          weeklyNotes |-> JObj(EmptyMap),
          statusOverrides |-> JObj(EmptyMap),
          appLogo |-> JUndefined,
          templates |-> JArr(<<>>)])

\* the seed dataset, cut down to one record per collection beside the two
\* people the other specifications use
getDefaultData ==
    JObj([instruments |-> JArr(<< JObj([id |-> JStr("i1"), name |-> JStr("GC-MS Agilent"),
                                        categoryId |-> JStr("cat-inst-1")]) >>),
          instrumentCategories |-> JArr(<< JObj([id |-> JStr("cat-inst-1"),
                                                 name |-> JStr("Analisi Chimica"),
                                                 icon |-> JStr("science")]) >>),
          personnel |-> JArr(<< JObj([id |-> JStr("p1"), name |-> JStr("Mario Rossi"),
                                      initials |-> JStr("MR"), fixedAbsences |-> JObj(EmptyMap),
                                      color |-> JStr("#f44336")]),
                                JObj([id |-> JStr("p2"), name |-> JStr("Laura Bianchi"),
                                      initials |-> JStr("LB"),
                                      fixedAbsences |->
                                          JObj([k \in {"4"} |-> JObj([P |-> JStr("fisse")])]),
                                      color |-> JStr("#9c27b0")]) >>),
          absenceTypes |-> initialData.v.absenceTypes,
          absences |-> JArr(<< JObj([id |-> JStr("abs1"), personnelId |-> JStr("p2"),
                                     startDate |-> JStr("2025-01-01"),
                                     endDate |-> JStr("2025-01-01"),
                                     typeId |-> JStr("fuori_sede"),
                                     note |-> JStr("Corso aggiornamento")]) >>),
          unprocessedAbsences |-> JArr(<<>>),
          campaigns |-> JArr(<< JObj([id |-> JStr("c2"), name |-> JStr("Analisi CQ Lotto #123"),
                                      categoryId |-> JStr("cat-camp-2")]) >>),
          campaignCategories |-> JArr(<< JObj([id |-> JStr("cat-camp-2"),
                                               name |-> JStr("Controllo Qualita")]) >>),
          bookings |-> JArr(<< JObj([id |-> JStr("b1"), instrumentId |-> JStr("i1"),
                                     personnelId |-> JStr("p1"), date |-> JStr("2024-12-30"),
                                     slot |-> JStr("M"),
                                     note |-> JStr("Calibrazione iniziale")]) >>),
          weeklyNotes |-> JObj([k \in {"2025-W1"} |-> JStr("Settimana di test.")]),
          statusOverrides |-> JObj(EmptyMap),
          appLogo |-> JUndefined,
          templates |-> JArr(<< JObj([id |-> JStr("t1"), name |-> JStr("Settimana Standard CQ"),
                                      positionalBookings |->
                                          JObj([k \in {"i1-0-M"} |->
                                                   JObj([personnelId |-> JStr("p1"),
                                                         note |-> JStr("Controllo settimanale")])])
                                     ]) >>)])

\* 426-448: instruments that still carry a `category` name get a categoryId.
\* The Map of categories by name is a sequence of [name, cat] in insertion
\* order; names are compared as values.  An id `cat-${Date.now()}-${size}` is
\* written "cat-T-" and the size; the emoji table is left out, an icon passes
\* through unchanged.
HasCategory(inst) == Prop(inst, "category").t # "undefined"

MapHas(entries, name) == \E i \in 1..Len(entries) : entries[i].name = name
MapGet(entries, name) == entries[CHOOSE i \in 1..Len(entries) : entries[i].name = name].cat
MapSet(entries, name, cat) ==
    IF MapHas(entries, name)
    THEN [i \in 1..Len(entries) |-> IF entries[i].name = name
                                     THEN [name |-> name, cat |-> cat] ELSE entries[i]]
    ELSE Append(entries, [name |-> name, cat |-> cat])

RECURSIVE CategoriesByName(_, _)
CategoriesByName(cats, entries) ==
    IF cats = <<>> THEN entries
    ELSE CategoriesByName(Tail(cats), MapSet(entries, Prop(Head(cats), "name"), Head(cats)))

RECURSIVE MigrateInstrumentLoop(_, _, _)
MigrateInstrumentLoop(insts, entries, done) ==
    IF insts = <<>> THEN [instruments |-> done, entries |-> entries]
    ELSE LET inst == Head(insts)
         IN IF ~HasCategory(inst)
            THEN MigrateInstrumentLoop(Tail(insts), entries, Append(done, inst))
            ELSE LET categoryName == Or(Prop(inst, "category"), JStr("Senza Categoria"))
                     newEntries ==
                         IF MapHas(entries, categoryName) THEN entries
                         ELSE MapSet(entries, categoryName,
                                     JObj([id |-> JStr("cat-T-" \o ToString(Len(entries))),
                                           name |-> categoryName,
                                           icon |-> Or(Prop(inst, "icon"), JStr("science"))]))
                     withId == SetProp(inst.v, "categoryId",
                                       Prop(MapGet(newEntries, categoryName), "id"))
                 IN MigrateInstrumentLoop(Tail(insts), newEntries,
                        Append(done, JObj(DeleteProp(DeleteProp(withId, "category"), "icon"))))

MigrateInstruments(parsedData) ==
    LET insts == Prop(parsedData, "instruments")
    IN IF ~Truthy(insts) THEN parsedData
       ELSE IF insts.t # "arr" THEN Raised                \* .some is not a function
       ELSE LET legacy == SomeOrRaise(insts.v, HasCategory)
            IN IF legacy = Raised THEN Raised
               ELSE IF ~legacy.v THEN parsedData
               ELSE LET cats == Or(Prop(parsedData, "instrumentCategories"), JArr(<<>>))
                    IN IF cats.t # "arr" THEN Raised      \* .forEach is not a function
                       ELSE IF HasNullish(cats.v) \/ HasNullish(insts.v) THEN Raised
                       ELSE LET r == MigrateInstrumentLoop(insts.v,
                                         CategoriesByName(cats.v, <<>>), <<>>)
                            IN JObj(SetProp(SetProp(parsedData.v, "instruments",
                                                    JArr(r.instruments)),
                                            "instrumentCategories",
                                            JArr([i \in 1..Len(r.entries) |-> r.entries[i].cat])))

\* 450-466: defaults for initials, color and fixedAbsences; a fixedAbsences
\* array of day indexes becomes { [dayIndex]: { M: 'fisse', P: 'fisse' } }
MigratePerson(p) ==
    LET fixed == Or(Prop(p, "fixedAbsences"), JObj(EmptyMap))
        migrated == IF fixed.t = "arr"
                    THEN JObj([k \in {ToText(fixed.v[i]) : i \in 1..Len(fixed.v)} |-> FisseBoth])
                    ELSE fixed
    IN JObj(Merge(SpreadOf(p), [initials |-> Or(Prop(p, "initials"), JStr("")),
                                color |-> Or(Prop(p, "color"), JStr("#cccccc")),
                                fixedAbsences |-> migrated]))

MigratePersonnel(parsedData) ==
    LET list == Prop(parsedData, "personnel")
    IN IF ~(Truthy(list) /\ list.t = "arr") THEN parsedData
       ELSE IF HasNullish(list.v) THEN Raised              \* p.initials of null
       ELSE JObj(SetProp(parsedData.v, "personnel",
                         JArr([i \in 1..Len(list.v) |-> MigratePerson(list.v[i])])))

\* 467-473: defaults for typeId and note of the absences
MigrateAbsence(a) ==
    JObj(Merge(SpreadOf(a),
               [typeId |-> Or(Prop(a, "typeId"),
                              IF Truthy(Prop(a, "reason")) THEN JStr("malattia")
                              ELSE JStr("ferie")),
                note |-> Or(Or(Prop(a, "note"), Prop(a, "reason")), JStr(""))]))

MigrateAbsences(parsedData) ==
    LET list == Prop(parsedData, "absences")
    IN IF ~(Truthy(list) /\ list.t = "arr") THEN parsedData
       ELSE IF HasNullish(list.v) THEN Raised              \* a.typeId of null
       ELSE JObj(SetProp(parsedData.v, "absences",
                         JArr([i \in 1..Len(list.v) |-> MigrateAbsence(list.v[i])])))

\* 482-497: templates that hold a `bookings` list get positionalBookings
IsLegacyTemplate(tpl) == tpl.t = "obj" /\ "bookings" \in DOMAIN tpl.v

RECURSIVE PositionalOfBookings(_, _)
PositionalOfBookings(list, positional) ==
    IF list = <<>> THEN positional
    ELSE LET b == Head(list)
             complete == /\ Truthy(Prop(b, "instrumentId"))
                         /\ Prop(b, "dayOfWeek").t # "undefined"
                         /\ Truthy(Prop(b, "slot"))
                         /\ Truthy(Prop(b, "personnelId"))
             key == ToText(Prop(b, "instrumentId")) \o "-" \o ToText(Prop(b, "dayOfWeek"))
                        \o "-" \o ToText(Prop(b, "slot"))
         IN PositionalOfBookings(Tail(list),
                IF complete
                THEN SetProp(positional, key,
                             JObj([personnelId |-> Prop(b, "personnelId"),
                                   note |-> Prop(b, "note")]))
                ELSE positional)

\* the callback of data.templates.map: a value, or Raised
MigrateTemplate(tpl) ==
    LET list == Prop(tpl, "bookings")
    IN IF ~Truthy(list) THEN tpl
       ELSE IF list.t # "arr" THEN Raised                  \* .forEach is not a function
       ELSE IF HasNullish(list.v) THEN Raised              \* b.instrumentId of null
       ELSE JObj([id |-> Prop(tpl, "id"), name |-> Prop(tpl, "name"),
                  positionalBookings |-> JObj(PositionalOfBookings(list.v, EmptyMap))])

MigrateTemplates(document) ==
    LET list == document.v.templates
    IN IF ~Truthy(list) THEN document
       ELSE IF list.t # "arr" THEN Raised                  \* .some is not a function
       ELSE LET legacy == SomeOrRaise(list.v, IsLegacyTemplate)
            IN IF legacy = Raised THEN Raised
               ELSE IF ~legacy.v THEN document
               ELSE IF HasNullish(list.v) THEN Raised      \* t.bookings of null
               ELSE LET mapped == [i \in 1..Len(list.v) |-> MigrateTemplate(list.v[i])]
                    IN IF \E i \in 1..Len(mapped) : mapped[i] = Raised THEN Raised
                       ELSE JObj(SetProp(document.v, "templates", JArr(mapped)))

\* 500-502: fewer than five absence types are replaced by the initial five
LengthBelow(v, n) ==
    CASE v.t = "arr" -> Len(v.v) < n
      [] v.t = "str" -> Len(v.v) < n
      [] v.t = "obj" -> Prop(v, "length").t = "num" /\ Prop(v, "length").v < n
      [] OTHER -> FALSE

DefaultAbsenceTypes(document) ==
    IF ~Truthy(document.v.absenceTypes) \/ LengthBelow(document.v.absenceTypes, 5)
    THEN JObj(SetProp(document.v, "absenceTypes", initialData.v.absenceTypes))
    ELSE document

\* 504-505: data.<key>.map(x => ({...x, categoryId: x.categoryId || ''}))
DefaultCategoryIds(document, key) ==
    LET list == document.v[key]
    IN IF Nullish(list) \/ list.t # "arr" THEN Raised      \* .map of null / not a function
       ELSE IF HasNullish(list.v) THEN Raised              \* c.categoryId of null
       ELSE JObj(SetProp(document.v, key,
                JArr([i \in 1..Len(list.v) |->
                        JObj(SetProp(SpreadOf(list.v[i]), "categoryId",
                                     Or(Prop(list.v[i], "categoryId"), JStr(""))))])))

\* 475-479: { ...initialData, ...parsedData } and the four defaults
AssembleData(parsedData) ==
    LET merged == Merge(initialData.v, SpreadOf(parsedData))
    IN JObj([merged EXCEPT
                !.statusOverrides = Or(Prop(parsedData, "statusOverrides"), JObj(EmptyMap)),
                !.appLogo = Or(Prop(parsedData, "appLogo"), JUndefined),
                !.templates = Or(Prop(parsedData, "templates"), JArr(<<>>)),
                !.unprocessedAbsences = Or(Prop(parsedData, "unprocessedAbsences"),
                                           JArr(<<>>))])

\* one step of the try block: a step is skipped once an earlier one threw
Then(value, Step(_)) == IF value = Raised THEN Raised ELSE Step(value)

\* 425-507: the body of the `if (storedData)` branch, a document or Raised
LoadParsed(parsedData) ==
    IF Nullish(parsedData) THEN Raised                     \* parsedData.instruments of null
    ELSE LET a == Then(MigrateInstruments(parsedData), MigratePersonnel)
             b == Then(Then(a, MigrateAbsences), AssembleData)
             c == Then(Then(b, MigrateTemplates), DefaultAbsenceTypes)
             d == Then(c, LAMBDA doc : DefaultCategoryIds(doc, "campaigns"))
         IN Then(d, LAMBDA doc : DefaultCategoryIds(doc, "instruments"))

\* what localStorage.getItem finds under the key: nothing, the empty string,
\* text that is not JSON, or the text of a JSON value
TextOf(value) == [kind |-> "json", value |-> value]
EmptyText == [kind |-> "empty"]
GarbageText == [kind |-> "garbage"]

\* the try block of loadData 422-508: a document; Raised when it threw; JUndefined
\* when it fell through
LoadTry(content) ==
    IF content.kind \in {"absent", "empty"} THEN JUndefined
    ELSE IF content.kind = "garbage" THEN Raised           \* JSON.parse throws
    ELSE LoadParsed(content.value)

\* a loadData whose catch rethrows
loadDataRethrowing(content) ==
    LET tried == LoadTry(content)
    IN IF tried = JUndefined THEN getDefaultData ELSE tried

\* loadData 421-513
loadData(content) ==
    LET tried == LoadTry(content)
    IN IF tried \in {Raised, JUndefined} THEN getDefaultData ELSE tried

----------------------------------------------------------------------------
(* loadData on stored contents of every kind *)

\* a key a document does not have
Absent == [t |-> "absent"]
DocumentOf(fields) == JObj([k \in {x \in DOMAIN fields : fields[x] # Absent} |-> fields[k]])

Person(id, fixedAbsences) ==
    DocumentOf([id |-> JStr(id), name |-> JStr("N"), fixedAbsences |-> fixedAbsences])

StoredPersonnel ==
    { Absent, JNum(7),
      JArr(<<JNull>>),
      JArr(<<Person("p1", Absent)>>),
      JArr(<<Person("p1", JArr(<<JNum(0), JNum(4)>>))>>),
      JArr(<<Person("p1", JArr(<<JNum(5)>>))>>),
      JArr(<<Person("p1", JObj([k \in {"4"} |-> JObj([P |-> JStr("fisse")])]))>>),
      JArr(<<Person("p1", JObj([k \in {"6"} |-> JObj([M |-> JStr("ferie")])]))>>) }

LegacyBooking(instrumentId, slot) ==
    DocumentOf([instrumentId |-> instrumentId, dayOfWeek |-> JNum(0), slot |-> slot,
                personnelId |-> JStr("p1")])

StoredTemplates ==
    { Absent, JNum(3),
      JArr(<<JNull>>),
      JArr(<< JObj([id |-> JStr("t1"), name |-> JStr("T"),
                    positionalBookings |->
                        JObj([k \in {"i1-0-M"} |-> JObj([personnelId |-> JStr("p1")])])]) >>),
      JArr(<< JObj([id |-> JStr("t1"), name |-> JStr("T"),
                    bookings |-> JArr(<< LegacyBooking(JStr("i1"), JStr("M")),
                                         LegacyBooking(JStr("i1"), Absent) >>)]) >>),
      JArr(<< JObj([id |-> JStr("t1"), name |-> JStr("T"), bookings |-> JNum(1)]) >>),
      JArr(<< JObj([id |-> JStr("t1"), name |-> JStr("T"), bookings |-> JArr(<<JNull>>)]) >>),
      JArr(<< JNum(1), JObj([id |-> JStr("t1"), bookings |-> JNull]) >>) }

StoredCampaigns ==
    { Absent, JNull, JNum(5), JArr(<<JNull>>),
      JArr(<< JObj([id |-> JStr("c1"), name |-> JStr("C")]) >>) }

StoredInstruments ==
    { Absent, JStr("x"), JArr(<<JNull>>),
      JArr(<< JObj([id |-> JStr("i1"), name |-> JStr("I"), categoryId |-> JStr("cat-inst-1")]) >>),
      JArr(<< JObj([id |-> JStr("i1"), name |-> JStr("I"), category |-> JStr("Chem"),
                    icon |-> JStr("science")]),
              JObj([id |-> JStr("i2"), name |-> JStr("J"), category |-> JNull]) >>) }

StoredAbsences ==
    { Absent, JArr(<<JNull>>),
      JArr(<< JObj([id |-> JStr("a1"), personnelId |-> JStr("p1"),
                    startDate |-> JStr("2025-01-01"), endDate |-> JStr("2025-01-01"),
                    reason |-> JStr("flu")]) >>) }

StoredAbsenceTypes ==
    { Absent, JNum(1), JArr(<< JObj([id |-> JStr("ferie"), name |-> JStr("Ferie")]) >>) }

StoredDocuments ==
    { DocumentOf([personnel |-> p, templates |-> tpl, campaigns |-> c, instruments |-> i,
                  absences |-> Absent, absenceTypes |-> Absent, bookings |-> JArr(<<>>)]) :
        p \in StoredPersonnel, tpl \in StoredTemplates, c \in StoredCampaigns,
        i \in StoredInstruments }
    \cup
    { DocumentOf([personnel |-> p, templates |-> Absent, campaigns |-> Absent,
                  instruments |-> Absent, absences |-> a, absenceTypes |-> at,
                  bookings |-> b]) :
        p \in StoredPersonnel, a \in StoredAbsences, at \in StoredAbsenceTypes,
        b \in {Absent, JNum(2)} }

StoredContents ==
    {NoContent, EmptyText, GarbageText}
    \cup {TextOf(v) : v \in {JNull, JNum(0), JNum(5), JBool(TRUE), JStr(""), JArr(<<>>),
                             JArr(<<JNum(1)>>)}}
    \cup {TextOf(v) : v \in StoredDocuments}

InitLoad ==
    /\ tz = 1
    /\ NoWorker
    /\ call \in [op : {"loadData"}, content : StoredContents]
    /\ ret = NoRet
    /\ pc = "call"
    /\ IdleApp

CallLoadData ==
    /\ pc = "call"
    /\ call.op = "loadData"
    /\ ret' = [op |-> "loadData", result |-> loadData(call.content)]
    /\ pc' = "done"
    /\ UNCHANGED <<tz, swVars, call, dataVars, uiVars, appVars>>

NextLoad == CallLoadData

SpecLoad == InitLoad /\ [][NextLoad]_vars

\* a document with every key of a snapshot
IsSnapshotDocument(v) == v.t = "obj" /\ DOMAIN initialData.v \subseteq DOMAIN v.v

\* the stored content is no JSON text, or the processing of its value throws
CannotBeProcessed(content) ==
    \/ content.kind \in {"empty", "garbage"}
    \/ content.kind = "json" /\ LoadParsed(content.value) = Raised

C13_Processed ==
    /\ ret.op = "loadData"
    /\ call.content.kind = "json"
    /\ ret.result # getDefaultData
    /\ Prop(ret.result, "personnel").t = "arr"
    /\ Len(ret.result.v.personnel.v) = 1

----------------------------------------------------------------------------
(* The App component, src/index.tsx 657-891, with the personnel form        *)
(* (CrudComponent 2177-2320, FixedAbsenceEditor 2114-2167) and the backup   *)
(* import (DataBackupManager 2379-2441) of the data management view         *)

\* saveData 515-521: setItem of the serialised snapshot (a store with room
\* for it: setItem does not throw)
saveData(document) == TextOf(Stringified(document))

\* a save effect that writes in every mode
SaveEffectUnguarded(document) == store' = saveData(document)

\* 687-691: useEffect(() => { if (!isReadOnly) saveData(data) }, [data, isReadOnly])
SaveEffect(document) == store' = IF ~isReadOnly THEN saveData(document) ELSE store

\* 660-674: the initialiser of `data`.  A hash without 'data=' is NoContent;
\* atob or JSON.parse throw on EmptyText and GarbageText.
InitialData(loc, content) ==
    IF loc.mode = "readonly" /\ loc.hash.kind = "json"
    THEN JObj(Merge(initialData.v, SpreadOf(loc.hash.value)))
    ELSE loadData(content)

\* a snapshot the views can render: its collections are arrays
Renders(document) ==
    /\ document.t = "obj"
    /\ \A k \in {"instruments", "personnel", "bookings", "absenceTypes"} :
           Prop(document, k).t = "arr"
    /\ Prop(document, "weeklyNotes").t = "obj"

AppUnchanged == <<tz, swVars, calVars, dataVars, currentDate, bookingModal, quickBookingModal,
                  editingStatus, selectedTemplateId, confirmation, isNamingTemplate,
                  pendingImport, location, isReadOnly>>

\* the effects of the first render
MountEffect ==
    /\ ~mounted
    /\ mounted' = TRUE
    /\ SaveEffect(appData)
    /\ lastOp' = NoOp
    /\ UNCHANGED <<AppUnchanged, appData, view, editing, backupReader, nextId>>

\* 857-859: the navigation buttons; two of them are not rendered in read-only mode
SetView(v) ==
    /\ mounted
    /\ v = "dashboard" \/ ~isReadOnly
    /\ view' = v
    /\ editing' = NoEditing
    /\ lastOp' = NoOp
    /\ UNCHANGED <<AppUnchanged, appData, store, backupReader, mounted, nextId>>

\* handleShare 766-781: the link ?mode=readonly#data=<the snapshot>
HandleShare ==
    /\ mounted
    /\ lastOp' = [op |-> "share", mode |-> "readonly", hash |-> TextOf(Stringified(appData))]
    /\ UNCHANGED <<AppUnchanged, appData, view, store, editing, backupReader, mounted, nextId>>

\* setWeeklyNote 1413-1418; the textarea is readOnly in read-only mode (1943)
SetWeeklyNote(note) ==
    /\ mounted
    /\ view = "dashboard"
    /\ ~isReadOnly
    /\ Renders(appData)
    /\ LET weekKey == ToString(year) \o "-W" \o ToString(week)
           notes == SetProp(SpreadOf(Prop(appData, "weeklyNotes")), weekKey, JStr(note))
       IN /\ appData' = JObj(SetProp(appData.v, "weeklyNotes", JObj(notes)))
          /\ SaveEffect(appData')
    /\ lastOp' = NoOp
    /\ UNCHANGED <<AppUnchanged, view, editing, backupReader, mounted, nextId>>

\* the data management view is on screen
ManagingData == mounted /\ view = "dataManagement" /\ ~isReadOnly /\ Renders(appData)

\* 2297: setEditing(item) on a row of the personnel table
EditPerson(i) ==
    /\ ManagingData
    /\ i \in 1..Len(appData.v.personnel.v)
    /\ editing' = [open |-> TRUE, item |-> appData.v.personnel.v[i]]
    /\ lastOp' = NoOp
    /\ UNCHANGED <<AppUnchanged, appData, view, store, backupReader, mounted, nextId>>

\* 2275: setEditing({}) and the name typed into the form (2258-2262)
AddPerson(name) ==
    /\ ManagingData
    /\ editing' = [open |-> TRUE, item |-> JObj([k \in {"name"} |-> JStr(name)])]
    /\ lastOp' = NoOp
    /\ UNCHANGED <<AppUnchanged, appData, view, store, backupReader, mounted, nextId>>

\* 2286: setEditing(null)
CancelEdit ==
    /\ ManagingData
    /\ editing # NoEditing
    /\ editing' = NoEditing
    /\ lastOp' = NoOp
    /\ UNCHANGED <<AppUnchanged, appData, view, store, backupReader, mounted, nextId>>

\* FixedAbsenceEditor.handleChange 2118-2135 on value || {}
FixedAbsencesAfterChange(value, dayIndex, slot, typeId) ==
    LET newAbsences == Stringified(Or(value, JObj(EmptyMap))).v
        day == ToString(dayIndex)
        entry == IF day \in DOMAIN newAbsences THEN newAbsences[day] ELSE JUndefined
    IN IF typeId = ""
       THEN IF ~Truthy(entry) THEN JObj(newAbsences)
            ELSE LET rest == DeleteProp(entry.v, slot)
                 IN IF DOMAIN rest = {} THEN JObj(DeleteProp(newAbsences, day))
                    ELSE JObj(SetProp(newAbsences, day, JObj(rest)))
       ELSE LET base == IF ~Truthy(entry) THEN EmptyMap ELSE entry.v
            IN JObj(SetProp(newAbsences, day, JObj(SetProp(base, slot, JStr(typeId)))))

\* the select of a cell of the editor (2150-2157) with the onChange of 2230:
\* setEditing(prev => ({ ...prev, fixedAbsences: val }))
FixedAbsenceChange(dayIndex, slot, typeId) ==
    /\ ManagingData
    /\ editing # NoEditing
    /\ LET value == Or(Prop(editing.item, "fixedAbsences"), JObj(EmptyMap))
       IN /\ value.t = "obj"
          /\ \A k \in DOMAIN value.v : value.v[k].t = "obj"
          /\ \/ typeId = ""
             \/ \E i \in 1..Len(appData.v.absenceTypes.v) :
                    Prop(appData.v.absenceTypes.v[i], "id") = JStr(typeId)
          /\ editing' = [editing EXCEPT !.item =
                            JObj(SetProp(editing.item.v, "fixedAbsences",
                                 FixedAbsencesAfterChange(value, dayIndex, slot, typeId)))]
    /\ lastOp' = NoOp
    /\ UNCHANGED <<AppUnchanged, appData, view, store, backupReader, mounted, nextId>>

\* CrudComponent.handleSave 2202-2216 with setItems = onDataChange('personnel', ..)
\* and handleDataChange 705-707
CrudSavePerson ==
    /\ ManagingData
    /\ editing # NoEditing
    /\ IF ~Truthy(Prop(editing.item, "name"))
       THEN UNCHANGED <<appData, store, editing, nextId>>        \* alert, return
       ELSE LET itemToSave == editing.item
                items == appData.v.personnel.v
            IN /\ ~HasNullish(items)
               /\ IF Truthy(Prop(itemToSave, "id"))
                  THEN /\ appData' = JObj(SetProp(appData.v, "personnel",
                              JArr([i \in 1..Len(items) |->
                                      IF Prop(items[i], "id") = Prop(itemToSave, "id")
                                      THEN itemToSave ELSE items[i]])))
                       /\ UNCHANGED nextId
                  ELSE /\ nextId <= MaxId
                       /\ Len(items) < MaxPersons
                       /\ appData' = JObj(SetProp(appData.v, "personnel",
                              JArr(Append(items, JObj(SetProp(itemToSave.v, "id",
                                                              JStr(ToString(nextId))))))))
                       /\ nextId' = nextId + 1
               /\ SaveEffect(appData')
               /\ editing' = NoEditing
    /\ lastOp' = NoOp
    /\ UNCHANGED <<AppUnchanged, view, backupReader, mounted>>

\* DataBackupManager.handleFileChange 2405-2438 up to reader.readAsText(file);
\* without a file, or when confirm() is declined, it returns
HandleFileChange(file, confirmed) ==
    /\ ManagingData
    /\ editing = NoEditing                                  \* the backup tab is on screen
    /\ backupReader = NoReader
    /\ backupReader' = IF confirmed THEN [active |-> TRUE, file |-> file] ELSE NoReader
    /\ lastOp' = NoOp
    /\ UNCHANGED <<AppUnchanged, appData, view, store, editing, mounted, nextId>>

\* the check of 2421-2424 on the parsed file
PassesBackupCheck(parsedData) ==
    /\ Truthy(Prop(parsedData, "instruments"))
    /\ Truthy(Prop(parsedData, "personnel"))
    /\ Truthy(Prop(parsedData, "bookings"))

\* an onload that hands every parsed file to onImport
BackupParsedUnchecked(file) == IF file.kind # "json" THEN Raised ELSE file.value

\* what reader.onload 2414-2433 hands to onImport: a document, or Raised when
\* the try block threw
BackupParsed(file) ==
    IF file.kind # "json" THEN Raised                      \* JSON.parse throws
    ELSE IF Nullish(file.value) THEN Raised                \* parsedData.instruments of null
    ELSE IF ~PassesBackupCheck(file.value) THEN Raised     \* throw new Error(..)
    ELSE file.value

\* reader.onload 2414-2433 with onImport = setData (2373, 877)
BackupLoaded ==
    /\ mounted
    /\ backupReader # NoReader
    /\ LET parsedData == BackupParsed(backupReader.file)
       IN IF parsedData = Raised
          THEN UNCHANGED <<appData, store>>                 \* alert(`Errore: ..`)
          ELSE /\ appData' = parsedData
               /\ SaveEffect(appData')
    /\ backupReader' = NoReader
    /\ editing' = NoEditing
    /\ lastOp' = [op |-> "backupImport", file |-> backupReader.file, before |-> appData]
    /\ UNCHANGED <<AppUnchanged, view, mounted, nextId>>

\* reader.onerror 2434-2437
BackupReadError ==
    /\ mounted
    /\ backupReader # NoReader
    /\ backupReader' = NoReader
    /\ lastOp' = NoOp
    /\ UNCHANGED <<AppUnchanged, appData, view, store, editing, mounted, nextId>>

\* inputs of the App specification
AppDocument(personnelList) ==
    JObj([instruments |-> JArr(<<>>), personnel |-> personnelList, bookings |-> JArr(<<>>)])

FixedOn(day, slot, typeId) == JObj([k \in {day} |-> JObj([x \in {slot} |-> JStr(typeId)])])

AppStoredContents ==
    { NoContent, GarbageText,
      TextOf(AppDocument(JArr(<<Person("p1", FixedOn("4", "P", "fisse"))>>))),
      TextOf(AppDocument(JArr(<<Person("p1", JArr(<<JNum(0), JNum(4)>>))>>))),
      TextOf(AppDocument(JArr(<<Person("p1", JArr(<<JNum(5)>>))>>))) }

HashContents ==
    { NoContent, GarbageText, TextOf(AppDocument(JArr(<<Person("p9", Absent)>>))) }

BackupFiles ==
    { GarbageText, TextOf(JNull),
      TextOf(DocumentOf([instruments |-> JArr(<<>>), personnel |-> JArr(<<>>),
                         bookings |-> Absent])),
      TextOf(AppDocument(JArr(<<Person("p7", FixedOn("6", "M", "ferie"))>>))),
      TextOf(AppDocument(JNum(7))) }

EditorDays == {0, 4}            \* of the rows LUN..VEN (2115)
EditorSlots == {"M"}
EditorTypeIds == {"", "fisse"}
PersonNames == {"", "N"}
WeeklyNotes == {"n"}
Views == {"dashboard", "dataManagement"}

InitApp ==
    /\ tz = 1
    /\ NoWorker
    /\ call = NoOp /\ ret = NoRet /\ pc = "idle"
    /\ personnel = <<>>
    /\ absenceTypes = <<>>
    /\ absences = <<>>
    /\ unprocessedAbsences = <<>>
    /\ bookings = <<>>
    /\ templates = <<>>
    /\ statusOverrides = EmptyMap
    /\ currentDate = ParseLocalMidnight(BaseDateStr)
    /\ bookingModal = NoModal
    /\ quickBookingModal = NoModal
    /\ editingStatus = NoModal
    /\ selectedTemplateId = 0
    /\ confirmation = NoConfirmation
    /\ isNamingTemplate = FALSE
    /\ pendingImport = NoImport
    /\ nextId = 1
    /\ lastOp = NoOp
    /\ location \in {[mode |-> "none", hash |-> NoContent]}
                      \cup [mode : {"readonly"}, hash : HashContents]
    /\ isReadOnly = (location.mode = "readonly")
    /\ store \in AppStoredContents
    /\ appData = InitialData(location, store)
    /\ view = "dashboard"
    /\ editing = NoEditing
    /\ backupReader = NoReader
    /\ mounted = FALSE

PersonnelForm ==
    \/ \E i \in 1..MaxPersons : EditPerson(i)
    \/ \E name \in PersonNames : AddPerson(name)
    \/ CancelEdit
    \/ \E dayIndex \in EditorDays, slot \in EditorSlots, typeId \in EditorTypeIds :
           FixedAbsenceChange(dayIndex, slot, typeId)
    \/ CrudSavePerson

BackupImport ==
    \/ \E file \in BackupFiles, confirmed \in BOOLEAN : HandleFileChange(file, confirmed)
    \/ BackupLoaded
    \/ BackupReadError

NextApp ==
    \/ MountEffect
    \/ \E v \in Views : SetView(v)
    \/ HandleShare
    \/ \E note \in WeeklyNotes : SetWeeklyNote(note)
    \/ PersonnelForm
    \/ BackupImport

SpecApp == InitApp /\ [][NextApp]_vars

----------------------------------------------------------------------------
(* Properties of the App *)

\* C12: in read-only mode no step of the App (mounting included) writes the
\* persisted store, whether the snapshot came from the URL hash or, after a
\* decode failure, from the local store.
C12_ReadOnlyNeverWrites == [][isReadOnly => store' = store]_vars

\* read-only, the hash could not be decoded, the snapshot was loaded from a
\* stored document, the effects have run and the share button was used
C12_Witness ==
    /\ isReadOnly
    /\ location.hash = GarbageText
    /\ store.kind = "json"
    /\ appData = loadData(store)
    /\ mounted
    /\ lastOp.op = "share"

\* read-only with the snapshot of the hash, which differs from what the store holds
C12_WitnessHash ==
    /\ isReadOnly
    /\ location.hash.kind = "json"
    /\ store.kind = "json"
    /\ appData # loadData(store)
    /\ mounted
    /\ lastOp.op = "share"

BackupCollections == {"instruments", "personnel", "bookings"}

\* the JSON value has no entry for one of the three collections
LacksCollection(v) == \E k \in BackupCollections : Prop(v, k).t = "undefined"

\* the JSON value holds the three collections
HasCollections(v) == \A k \in BackupCollections : Prop(v, k).t = "arr"

\* C14: a backup file that is not valid JSON, or whose JSON lacks one of the
\* instruments, personnel or bookings collections, leaves the snapshot as it
\* was; a file that holds the three collections replaces the whole snapshot
\* with its content.
C14_BackupImport ==
    lastOp.op = "backupImport" =>
        /\ (lastOp.file.kind # "json" \/ LacksCollection(lastOp.file.value))
               => appData = lastOp.before
        /\ (lastOp.file.kind = "json" /\ HasCollections(lastOp.file.value))
               => appData = lastOp.file.value

\* a backup with the three collections has replaced a different snapshot
C14_Witness ==
    /\ lastOp.op = "backupImport"
    /\ lastOp.file.kind = "json"
    /\ HasCollections(lastOp.file.value)
    /\ lastOp.before # lastOp.file.value
    /\ appData = lastOp.file.value

\* a backup without the bookings collection was read and turned down
C14_Rejected ==
    /\ lastOp.op = "backupImport"
    /\ lastOp.file.kind = "json"
    /\ lastOp.file.value.t = "obj"
    /\ LacksCollection(lastOp.file.value)
    /\ appData = lastOp.before

\* getAbsenceDetails 1383-1387 on a personnel record of the snapshot:
\* person.fixedAbsences?.[fixedAbsenceDayIndex]?.[slot]
fixedAbsenceDayIndex(date) == IF getDay(date) = 0 THEN 6 ELSE getDay(date) - 1

fixedAbsenceTypeId(person, date, slot) ==
    Prop(Prop(Prop(person, "fixedAbsences"), ToString(fixedAbsenceDayIndex(date))), slot)

\* the Saturday and the Sunday of the week on screen
WeekendDates == {addDays(weekStartDate, 5), addDays(weekStartDate, 6)}

\* the day indexes for which a record holds fixed absences
FixedAbsenceDays(person) ==
    LET fixed == Prop(person, "fixedAbsences")
    IN IF fixed.t = "obj" THEN DOMAIN fixed.v ELSE {}

WeekdayIndexes == {"0", "1", "2", "3", "4"}

\* C19: for every Saturday or Sunday and every personnel record of a
\* reachable snapshot, the fixed weekly lookup finds no type id: the records
\* hold fixed absences for the day indexes 0-4 only.
C19_NoWeekendFixedAbsence ==
    Renders(appData) =>
        \A i \in 1..Len(appData.v.personnel.v) :
            LET person == appData.v.personnel.v[i]
            IN /\ FixedAbsenceDays(person) \subseteq WeekdayIndexes
               /\ \A date \in WeekendDates, slot \in {"M", "P"} :
                      ~Truthy(fixedAbsenceTypeId(person, date, slot))

\* C19, the editor's part: a change made in the fixed-absence editor adds no
\* day index other than 0-4 to the record being edited.
C19_EditorAddsWeekdaysOnly ==
    [][(/\ editing # NoEditing
        /\ editing' # NoEditing
        /\ Prop(editing'.item, "id") = Prop(editing.item, "id"))
          => FixedAbsenceDays(editing'.item) \ FixedAbsenceDays(editing.item)
                 \subseteq WeekdayIndexes]_vars

\* the editor has set a fixed absence on Friday and the record was saved
C19_EditorReached ==
    /\ Renders(appData)
    /\ lastOp.op # "backupImport"
    /\ \E i \in 1..Len(appData.v.personnel.v) :
           /\ Prop(appData.v.personnel.v[i], "id") = JStr("1")
           /\ "4" \in FixedAbsenceDays(appData.v.personnel.v[i])

\* loadData has migrated a legacy array holding the day index 5, and the
\* lookup for the Saturday finds the type 'fisse'
C19_LegacySaturday ==
    /\ ~mounted
    /\ location.mode = "none"
    /\ Renders(appData)
    /\ \E i \in 1..Len(appData.v.personnel.v) :
           fixedAbsenceTypeId(appData.v.personnel.v[i], addDays(weekStartDate, 5), "M")
               = JStr("fisse")

----------------------------------------------------------------------------
(* Applying a template needs a confirmation *)

\* a step that changes the bookings with no booking dialog on screen
BookingsChangeOutsideDialogs ==
    /\ bookings' # bookings
    /\ bookingModal = NoModal
    /\ quickBookingModal = NoModal

ApplyPending == confirmation = [kind |-> "applyTemplate"]

C15_Cancelled ==
    /\ lastOp = [op |-> "cancel", kind |-> "applyTemplate"]
    /\ FindTemplate(templates, selectedTemplateId) # NoTemplate
    /\ InsideWeek(bookings, weekDateStrings) # <<>>
    /\ confirmation = NoConfirmation

----------------------------------------------------------------------------
(* The date range of an absence *)

\* C16: every absence of every reachable snapshot has startDate <= endDate.
C16_AbsenceRangeOrdered ==
    \A i \in 1..Len(absences) : absences[i].startDate <= absences[i].endDate

\* parseICS has returned an event that ends before it starts
C16_ParsedEndBeforeStart ==
    /\ pc = "done"
    /\ ret.op = "parseICS"
    /\ \E i \in 1..Len(ret.events) : ret.events[i].endDate < ret.events[i].startDate

----------------------------------------------------------------------------
(* The type 'fisse' is kept for the fixed weekly absences *)

\* C17: no ad-hoc absence and no status override made through the absence
\* editor or the status picker has the type 'fisse'.
C17_NoFisseAdHoc ==
    /\ \A i \in 1..Len(absences) : absences[i].typeId # "fisse"
    /\ \A k \in DOMAIN statusOverrides : statusOverrides[k] # "fisse"

\* the type 'fisse' exists, an absence was added through the editor and an
\* override naming an absence type was set through the picker
C17_Witness ==
    /\ "fisse" \in TypeIds
    /\ \E i \in 1..Len(absences) : absences[i].id \in 1..MaxId
    /\ \E k \in DOMAIN statusOverrides : statusOverrides[k] \in TypeIds

----------------------------------------------------------------------------
(* Type ids that are no longer in the absence-type list: the status grid    *)
(* with the absence editor and the deletion of an absence type              *)

NextTypes ==
    \/ StatusGrid
    \/ AbsenceEditor
    \/ \E typeId \in {"ferie"} : DeleteAbsenceType(typeId)

SpecTypes == InitStatus /\ [][NextTypes]_vars

\* the slot has a fixed weekly absence whose type is in the list
ValidFixedAbsence(person, date, slot) ==
    LET dayIndex == IF getDay(date) = 0 THEN 6 ELSE getDay(date) - 1
    IN FixedAbsenceTypeId(person, dayIndex, slot) \in TypeIds

\* C18: when the override of (person, date, slot), or with no override the
\* first ad-hoc absence covering the date, names a type id that is not in the
\* absence-type list, the cell shows no absence (and no override mark), also
\* when a source of lower priority names a type that is in the list.
C18_UnknownTypeShowsNoAbsence ==
    LET dates == weekDates
        dateStrings == weekDateStrings
    IN \A i \in 1..Len(personnel), d \in 1..5, slot \in Slots :
        LET personId == personnel[i].id
            override == OverrideOf(personId, dateStrings[d], slot)
            absence == FindAbsence(absences, personId, dateStrings[d])
            shown == PersonnelStatusCell(personId, dates[d], slot)
        IN /\ (override \notin {"", "present"} /\ override \notin TypeIds)
              => shown = [absenceDetails |-> NoType, isPresent |-> FALSE]
           /\ (override = "" /\ absence # NoAbsence /\ absence.typeId \notin TypeIds)
              => shown = [absenceDetails |-> NoType, isPresent |-> FALSE]

\* no override, the first ad-hoc absence covering the date names a deleted
\* type, and the slot has a fixed weekly absence of a listed type
C18_Witness ==
    \E i \in 1..Len(personnel), d \in 1..5, slot \in Slots :
        LET personId == personnel[i].id
            absence == FindAbsence(absences, personId, weekDateStrings[d])
        IN /\ OverrideOf(personId, weekDateStrings[d], slot) = ""
           /\ absence # NoAbsence
           /\ absence.typeId \notin TypeIds
           /\ ValidFixedAbsence(personnel[i], weekDates[d], slot)

\* the override names a deleted type while an ad-hoc absence of a listed type
\* covers the date
C18_WitnessOverride ==
    \E i \in 1..Len(personnel), d \in 1..5, slot \in Slots :
        LET personId == personnel[i].id
            override == OverrideOf(personId, weekDateStrings[d], slot)
            absence == FindAbsence(absences, personId, weekDateStrings[d])
        IN /\ override \notin {"", "present"}
           /\ override \notin TypeIds
           /\ absence # NoAbsence
           /\ absence.typeId \in TypeIds

----------------------------------------------------------------------------
(* Events whose DTSTART is a date-time *)

\* the text holds one event with a summary, a DTSTART that is a date-time
\* and a DTEND
IsTimedBlock(lines) ==
    LET st == FindLine(lines, "DTSTART")
        en == FindLine(lines, "DTEND")
        su == FindLine(lines, "SUMMARY")
    IN /\ ~BlockIsCancelled(lines)
       /\ su # NoLine /\ Trim(su.text) # <<>>
       /\ st # NoLine /\ st.time /\ st.digits # NoDigits
       /\ en # NoLine /\ en.digits # NoDigits

\* C20: for an event whose DTSTART is a date-time, also when it is written
\* with VALUE=DATE-TIME, parseICS returns endDate = the date of DTEND,
\* unchanged.
C20_TimedEndUnchanged ==
    (pc = "done" /\ ret.op = "parseICS" /\ Len(call.content) = 1
        /\ IsTimedBlock(call.content[1])) =>
        /\ Len(ret.events) = 1
        /\ ret.events[1].endDate = FindLine(call.content[1], "DTEND").digits

\* C20 for the date-times written without a VALUE parameter
C20_HoldsWithoutValueParameter ==
    (pc = "done" /\ ret.op = "parseICS" /\ Len(call.content) = 1
        /\ IsTimedBlock(call.content[1])
        /\ FindLine(call.content[1], "DTSTART").param = "") =>
        /\ Len(ret.events) = 1
        /\ ret.events[1].endDate = FindLine(call.content[1], "DTEND").digits

\* an event with a plain date-time DTSTART and a DTEND on a later day was parsed
C20_Reached ==
    /\ pc = "done" /\ ret.op = "parseICS" /\ Len(call.content) = 1
    /\ IsTimedBlock(call.content[1])
    /\ FindLine(call.content[1], "DTSTART").param = ""
    /\ FindLine(call.content[1], "DTEND").time
    /\ FindLine(call.content[1], "DTEND").digits > FindLine(call.content[1], "DTSTART").digits

----------------------------------------------------------------------------
(* Which blocks of a calendar text become events *)

\* the block is not cancelled and has a non-empty summary and a start date
Qualifies(lines) ==
    /\ ~BlockIsCancelled(lines)
    /\ FindLine(lines, "SUMMARY") # NoLine
    /\ Trim(FindLine(lines, "SUMMARY").text) # <<>>
    /\ FindLine(lines, "DTSTART").digits # NoDigits

\* the block has no DTEND line, or one without a date
NoUsableEnd(lines) == FindLine(lines, "DTEND").digits = NoDigits

\* C21: parseICS returns, in the order of the text, one event for each block
\* that is not cancelled and has a non-empty summary and a DTSTART with a
\* date, and nothing for the other blocks; the event carries the trimmed
\* summary and the start date, and where the block has no usable DTEND its
\* end date is the start date.
C21_OneEventPerQualifyingBlock ==
    (pc = "done" /\ ret.op = "parseICS") =>
        LET blocks == SelectSeq(call.content, Qualifies)
        IN /\ Len(ret.events) = Len(blocks)
           /\ \A k \in 1..Len(blocks) :
                  /\ ret.events[k].summary = Trim(FindLine(blocks[k], "SUMMARY").text)
                  /\ ret.events[k].startDate = FindLine(blocks[k], "DTSTART").digits
                  /\ NoUsableEnd(blocks[k])
                         => ret.events[k].endDate = ret.events[k].startDate

\* a text of two blocks whose first block has no DTEND line and became an
\* event that ends on its start date
C21_Witness ==
    /\ pc = "done" /\ ret.op = "parseICS"
    /\ Len(call.content) = 2
    /\ Qualifies(call.content[1])
    /\ FindLine(call.content[1], "DTEND") = NoLine
    /\ Len(ret.events) = 2
    /\ ret.events[1].endDate = ret.events[1].startDate

\* a text of two blocks whose first block was dropped: cancelled, without a
\* summary or without a start date
C21_Dropped ==
    /\ pc = "done" /\ ret.op = "parseICS"
    /\ Len(call.content) = 2
    /\ ~Qualifies(call.content[1])
    /\ FindLine(call.content[1], "DTEND").digits # NoDigits
    /\ Len(ret.events) = 1

----------------------------------------------------------------------------
(* An absence saved while a calendar file is being read *)

\* C22: when an import commits its result, every absence of the list that was
\* current at that moment, an absence saved after the file was selected
\* included, is still in the absence list.
C22_ImportKeepsCurrentAbsences ==
    lastOp.op = "import" =>
        \A i \in 1..Len(lastOp.absences) :
            \E j \in 1..Len(absences) : absences[j] = lastOp.absences[i]

\* an import has committed while the snapshot was the one of the render in
\* which the file was selected, and it added an absence
C22_ReachedInOrder ==
    /\ lastOp.op = "import"
    /\ ~lastOp.stale
    /\ Len(absences) > Len(lastOp.absences)

----------------------------------------------------------------------------
(* A reprocess run that matches nothing *)

WithoutReason(item) ==
    [id |-> item.id, summary |-> item.summary, startDate |-> item.startDate,
     endDate |-> item.endDate]

\* C23: a reprocess run that matches no item of the queue leaves every
\* collection of the snapshot as it was, the failure reason of every queue
\* item included.
C23_NoMatchChangesNothing ==
    [][(lastOp'.op = "reprocess" /\ lastOp'.committed = 0) => UNCHANGED dataVars]_vars

\* such a run changes nothing but the failure reasons of the queue
C23_OnlyReasonsChange ==
    [][(lastOp'.op = "reprocess" /\ lastOp'.committed = 0)
          => /\ UNCHANGED <<personnel, absenceTypes, absences, bookings, templates,
                            statusOverrides>>
             /\ Len(unprocessedAbsences') = Len(unprocessedAbsences)
             /\ \A i \in 1..Len(unprocessedAbsences) :
                    WithoutReason(unprocessedAbsences'[i])
                        = WithoutReason(unprocessedAbsences[i])]_vars

\* a first run has matched nothing; the queue items carry the reason that
\* handleReprocess writes
C23_Reached ==
    /\ lastOp.op = "reprocess"
    /\ lastOp.committed = 0
    /\ lastOp.run = 1
    /\ Len(unprocessedAbsences) > 0
    /\ \A i \in 1..Len(unprocessedAbsences) :
           unprocessedAbsences[i].failureReason = FailureReasonReprocess

----------------------------------------------------------------------------
(* What a reprocess run does with the items of the queue *)

\* C26: after a reprocess run every item that was in the queue is either
\* still in the queue or has become exactly one absence appended to the
\* list, with the item's start date, end date and its summary as note, never
\* both and never neither; the absences that existed before are unchanged.
C26_ReprocessConserves ==
    [][(lastOp'.op = "reprocess" /\ Len(unprocessedAbsences) > 0) =>
          LET added == After(absences', Len(absences))
              keptIds == {unprocessedAbsences'[j].id : j \in 1..Len(unprocessedAbsences')}
              kept == SelectSeq(unprocessedAbsences, LAMBDA item : item.id \in keptIds)
              gone == SelectSeq(unprocessedAbsences, LAMBDA item : item.id \notin keptIds)
          IN /\ Len(absences') >= Len(absences)
             /\ SubSeq(absences', 1, Len(absences)) = absences
             /\ Len(unprocessedAbsences') = Len(kept)
             /\ \A j \in 1..Len(kept) : unprocessedAbsences'[j].id = kept[j].id
             /\ Len(added) = Len(gone)
             /\ \A k \in 1..Len(gone) :
                    /\ added[k].startDate = gone[k].startDate
                    /\ added[k].endDate = gone[k].endDate
                    /\ added[k].note = gone[k].summary]_vars

\* a run has turned one item of the queue into an absence and kept another
C26_Witness ==
    /\ lastOp.op = "reprocess"
    /\ lastOp.committed = 1
    /\ lastOp.before = 2
    /\ Len(unprocessedAbsences) = 1

----------------------------------------------------------------------------
(* Workload of a person, src/index.tsx 895-916 (period) and 973-996         *)
(* The values that reach the computation are numbers (seed data, JSON) or  *)
(* the texts of the number inputs of the forms: CrudComponent stores        *)
(* e.target.value, a string, under 'weight' and 'workPercentage'           *)
(* (2264-2270).  A value is [t |-> "num", v |-> n] with NaN for NaN,        *)
(* [t |-> "text", v |-> its characters] or [t |-> "undefined"].  The        *)
(* modelled numbers and texts are non-negative integers; quotients are      *)
(* kept exact as numerator and denominator.                                 *)

Num(n) == [t |-> "num", v |-> n]
Text(chars) == [t |-> "text", v |-> chars]
Undefined == [t |-> "undefined"]

\* `${n}` for n >= 0
RECURSIVE NumberChars(_)
NumberChars(n) == IF n < 10 THEN NumberText(n) ELSE NumberChars(n \div 10) \o NumberText(n % 10)

\* Number(x) of a number, of a text of digits ('' is 0) and of undefined
ToNumber(x) ==
    CASE x.t = "num" -> x.v
      [] x.t = "text" -> IF x.v = <<>> THEN 0 ELSE parseInt(x.v)
      [] OTHER -> NaN

\* x || 1
OrOne(x) ==
    CASE x.t = "num" -> IF x.v = 0 \/ x.v = NaN THEN Num(1) ELSE x
      [] x.t = "text" -> IF x.v = <<>> THEN Num(1) ELSE x
      [] OTHER -> Num(1)

\* a + b of numbers and texts: a text operand makes it a concatenation
Plus(a, b) ==
    IF a.t = "text" \/ b.t = "text"
    THEN Text((IF a.t = "text" THEN a.v ELSE NumberChars(a.v))
              \o (IF b.t = "text" THEN b.v ELSE NumberChars(b.v)))
    ELSE IF a.v = NaN \/ b.v = NaN THEN Num(NaN) ELSE Num(a.v + b.v)

\* data.instruments.find(i => i.id === booking.instrumentId)?.weight
WeightOf(instruments, instrumentId) ==
    LET hits == {i \in 1..Len(instruments) : instruments[i].id = instrumentId}
    IN IF hits = {} THEN Undefined
       ELSE instruments[CHOOSE i \in hits : \A j \in hits : i <= j].weight

\* 977: the bookings of the person inside the period
personBookings(list, personId, startStr, endStr) ==
    SelectSeq(list, LAMBDA b : b.personnelId = personId /\ b.date >= startStr /\ b.date <= endStr)

\* 978-981: personBookings.reduce((sum, booking) => sum + (instrument?.weight || 1), 0)
RECURSIVE ReduceWeights(_, _, _)
ReduceWeights(list, instruments, sum) ==
    IF list = <<>> THEN sum
    ELSE ReduceWeights(Tail(list), instruments,
                       Plus(sum, OrOne(WeightOf(instruments, Head(list).instrumentId))))

actualWorkload(list, instruments) == ReduceWeights(list, instruments, Num(0))

\* 984-985: workloadPercentage = (actualWorkload / (maxWorkload || 1)) * 100 with
\* maxWorkload = workingDaysInPeriod * 8 * (person.workPercentage / 100), as the
\* exact quotient n / d
workloadPercentage(actual, workingDaysInPeriod, workPercentage) ==
    LET percent == ToNumber(workPercentage)
    IN IF percent = NaN \/ workingDaysInPeriod * 8 * percent = 0
       THEN [n |-> ToNumber(actual) * 100, d |-> 1]
       ELSE [n |-> ToNumber(actual) * 100 * 100, d |-> workingDaysInPeriod * 8 * percent]

\* 987-996: the bands, the highest threshold first
workloadStatus(percentage) ==
    IF percentage.n > 105 * percentage.d THEN "Sovraccarico"
    ELSE IF percentage.n > 90 * percentage.d THEN "A Rischio"
    ELSE IF percentage.n >= 40 * percentage.d THEN "Bilanciato"
    ELSE "Sottoutilizzato"

\* 898-901: the month of currentDate, new Date(y, m, 1) .. new Date(y, m + 1, 0)
MonthStart(date) == DateLocal(getFullYear(date), getMonth1(date), 1)
MonthEnd(date) ==
    DateLocal(getFullYear(date), getMonth1(date),
              DaysInMonth(getFullYear(date), getMonth1(date)))

\* PersonnelKpiCard 973-996
PersonnelKpiCard(person, instruments, list, startDate, endDate) ==
    LET startStr == formatDate(startDate)
        endStr == formatDate(endDate)
        actual == actualWorkload(personBookings(list, person.id, startStr, endStr), instruments)
        workingDaysInPeriod == countWorkingDays(startDate, endDate)
        percentage == workloadPercentage(actual, workingDaysInPeriod, person.workPercentage)
    IN [op |-> "workload", workingDays |-> workingDaysInPeriod,
        percentage |-> percentage, status |-> workloadStatus(percentage)]

\* inputs: two months, instruments as seeded and as saved by the form,
\* people with a percentage from the seed, from the form, and without one
KpiDates == {20250115, 20250210}
KpiInstrumentLists ==
    { << [id |-> "i1", weight |-> Num(4)], [id |-> "i2", weight |-> Num(3)] >>,
      << [id |-> "i1", weight |-> Text(<<"3">>)], [id |-> "i2", weight |-> Undefined] >>,
      << [id |-> "i1", weight |-> Num(0)], [id |-> "i2", weight |-> Text(<<>>)] >> }
KpiPercentages == {Num(100), Num(5), Num(0), Text(<<"5">>), Undefined}
KpiBookings ==
    [personnelId : {"p1", "p2"}, instrumentId : {"i1", "i2", "gone"},
     date : {20250120, 20250220}]
MaxKpiBookings == 3
KpiBookingLists ==
    UNION {[1..n -> KpiBookings] : n \in 0..MaxKpiBookings}

InitKpi ==
    /\ tz = 1
    /\ NoWorker
    /\ call \in [op : {"workload"}, date : KpiDates, instruments : KpiInstrumentLists,
                  workPercentage : KpiPercentages, bookings : KpiBookingLists]
    /\ ret = NoRet
    /\ pc = "call"
    /\ IdleApp

CallPersonnelKpiCard ==
    /\ pc = "call"
    /\ call.op = "workload"
    /\ LET date == ParseLocalMidnight(call.date)
       IN ret' = PersonnelKpiCard([id |-> "p1", workPercentage |-> call.workPercentage],
                                  call.instruments, call.bookings,
                                  MonthStart(date), MonthEnd(date))
    /\ pc' = "done"
    /\ UNCHANGED <<tz, swVars, call, dataVars, uiVars, appVars>>

NextKpi == CallPersonnelKpiCard

SpecKpi == InitKpi /\ [][NextKpi]_vars

\* the number a weight stands for; 1 for an instrument that is gone or has
\* no weight (undefined, empty, 0)
WeightValue(instruments, instrumentId) == ToNumber(OrOne(WeightOf(instruments, instrumentId)))

RECURSIVE SumOfWeights(_, _)
SumOfWeights(list, instruments) ==
    IF list = <<>> THEN 0
    ELSE WeightValue(instruments, Head(list).instrumentId) + SumOfWeights(Tail(list), instruments)

\* the bookings of p1 in the month of the call
BookingsOfTheMonth ==
    SelectSeq(call.bookings,
              LAMBDA b : b.personnelId = "p1" /\ b.date \div 100 = call.date \div 100)

\* Monday-Friday days of the month of the call
WorkingDaysOfTheMonth ==
    LET y == call.date \div 10000
        m == (call.date \div 100) % 100
    IN Cardinality({d \in 1..DaysInMonth(y, m) : IsWeekday(DaysFromCivil(y, m, d))})

\* 100 * actual / capacity with capacity = workingDays * 8 * workPercentage / 100,
\* a capacity of zero replaced by 1
ExpectedPercentage ==
    LET actual == SumOfWeights(BookingsOfTheMonth, call.instruments)
        capacity100 == WorkingDaysOfTheMonth * 8 * ToNumber(call.workPercentage)
    IN IF capacity100 = 0 THEN [n |-> 100 * actual, d |-> 1]
       ELSE [n |-> 100 * actual * 100, d |-> capacity100]

ExpectedStatus ==
    LET p == ExpectedPercentage
    IN IF p.n > 105 * p.d THEN "Sovraccarico"
       ELSE IF p.n > 90 * p.d THEN "A Rischio"
       ELSE IF p.n >= 40 * p.d THEN "Bilanciato"
       ELSE "Sottoutilizzato"

\* C24: for a person with a work percentage and a month, the workload status
\* is the band of 100 * actual / capacity ('Sovraccarico' above 105, else
\* 'A Rischio' above 90, else 'Bilanciato' from 40, else 'Sottoutilizzato'),
\* where actual is the sum of the weights of the person's bookings in the
\* month, a booking of a missing or weightless instrument counting 1, and
\* capacity = workingDays * 8 * workPercentage / 100, replaced by 1 when zero.
C24_WorkloadStatus ==
    (pc = "done" /\ ret.op = "workload" /\ call.workPercentage.t # "undefined") =>
        ret.status = ExpectedStatus

\* C24 for snapshots whose weights are numbers
C24_HoldsForNumbers ==
    (/\ pc = "done" /\ ret.op = "workload" /\ call.workPercentage.t # "undefined"
     /\ \A i \in 1..Len(call.instruments) : call.instruments[i].weight.t # "text") =>
        /\ ret.status = ExpectedStatus
        /\ ret.percentage = ExpectedPercentage

\* numeric weights, a booking of a missing instrument among three, and a
\* percentage in the 'A Rischio' band
C24_Reached ==
    /\ pc = "done" /\ ret.op = "workload"
    /\ \A i \in 1..Len(call.instruments) : call.instruments[i].weight.t = "num"
    /\ Len(BookingsOfTheMonth) = 3
    /\ \E i \in 1..3 : BookingsOfTheMonth[i].instrumentId = "gone"
    /\ ret.status = "A Rischio"

----------------------------------------------------------------------------
(* The absence warning of the booking dialogs and the status grid *)

\* C25: for every person, date of the week and slot, the booking dialogs'
\* 'person is absent' warning is raised exactly when the status grid shows
\* an absence for that slot.
C25_WarningFollowsGrid ==
    LET dates == weekDates
        dateStrings == weekDateStrings
    IN \A i \in 1..Len(personnel), d \in 1..5, slot \in Slots :
           isPersonAbsent(personnel[i].id, dateStrings[d], slot)
               <=> PersonnelStatusCell(personnel[i].id, dates[d], slot).absenceDetails # NoType

\* C25 for the slots without an override
C25_HoldsWithoutOverride ==
    LET dates == weekDates
        dateStrings == weekDateStrings
    IN \A i \in 1..Len(personnel), d \in 1..5, slot \in Slots :
           OverrideOf(personnel[i].id, dateStrings[d], slot) = ""
               => (isPersonAbsent(personnel[i].id, dateStrings[d], slot)
                      <=> PersonnelStatusCell(personnel[i].id, dates[d],
                                              slot).absenceDetails # NoType)

\* a slot without an override for which the warning is raised, next to a
\* slot of the same day for which it is not
C25_Reached ==
    \E i, j \in 1..Len(personnel), d \in 1..5, slot \in Slots :
        /\ OverrideOf(personnel[i].id, weekDateStrings[d], slot) = ""
        /\ isPersonAbsent(personnel[i].id, weekDateStrings[d], slot)
        /\ OverrideOf(personnel[j].id, weekDateStrings[d], slot) = ""
        /\ ~isPersonAbsent(personnel[j].id, weekDateStrings[d], slot)
        /\ lastOp.op = "absenceSave"

----------------------------------------------------------------------------
(* The absence types tab and a reload of the page, src/index.tsx 2359-2362, *)
(* 2202-2223, 660-674                                                       *)

\* items.filter(i => i.id !== itemToDelete.id)
WithoutItem(items, item) == SelectSeq(items, LAMBDA i : Prop(i, "id") # Prop(item, "id"))

\* handleDataChange 705-707 followed by the save effect
OnDataChange(key, value) ==
    /\ appData' = JObj(SetProp(appData.v, key, value))
    /\ SaveEffect(appData')

\* CrudComponent.handleSave 2202-2216 on the absence types tab; i = 0 for a
\* new type, else the row that was edited; name is what the form holds
CrudSaveAbsenceType(i, name) ==
    /\ ManagingData
    /\ editing = NoEditing
    /\ LET items == appData.v.absenceTypes.v
       IN /\ i \in 0..Len(items)
          /\ ~HasNullish(items)
          /\ IF name = ""
             THEN UNCHANGED <<appData, store, nextId>>              \* alert, return
             ELSE IF i > 0
             THEN /\ OnDataChange("absenceTypes",
                         JArr([k \in 1..Len(items) |->
                                 IF Prop(items[k], "id") = Prop(items[i], "id")
                                 THEN JObj(SetProp(items[i].v, "name", JStr(name)))
                                 ELSE items[k]]))
                  /\ UNCHANGED nextId
             ELSE /\ nextId <= MaxId
                  /\ OnDataChange("absenceTypes",
                         JArr(Append(items, JObj([id |-> JStr(ToString(nextId)),
                                                  name |-> JStr(name)]))))
                  /\ nextId' = nextId + 1
    /\ lastOp' = NoOp
    /\ UNCHANGED <<AppUnchanged, view, editing, backupReader, mounted>>

\* CrudComponent.handleConfirmDelete 2218-2223 on the absence types tab
CrudDeleteAbsenceType(i) ==
    /\ ManagingData
    /\ editing = NoEditing
    /\ LET items == appData.v.absenceTypes.v
       IN /\ i \in 1..Len(items)
          /\ ~HasNullish(items)
          /\ OnDataChange("absenceTypes", JArr(WithoutItem(items, items[i])))
    /\ lastOp' = NoOp
    /\ UNCHANGED <<AppUnchanged, view, editing, backupReader, mounted, nextId>>

\* the page is loaded again: the App starts from its initialiser (660-674)
Reload ==
    /\ mounted
    /\ appData' = InitialData(location, store)
    /\ mounted' = FALSE
    /\ view' = "dashboard"
    /\ editing' = NoEditing
    /\ backupReader' = NoReader
    /\ lastOp' = [op |-> "reload", before |-> appData]
    /\ UNCHANGED <<AppUnchanged, store, nextId>>

TypeNames == {"", "T"}
MaxTypes == 6

InitReload ==
    /\ InitApp
    /\ location.mode = "none"
    /\ store = NoContent

NextReload ==
    \/ MountEffect
    \/ \E v \in Views : SetView(v)
    \/ \E i \in 0..MaxTypes, name \in TypeNames : CrudSaveAbsenceType(i, name)
    \/ \E i \in 1..MaxTypes : CrudDeleteAbsenceType(i)
    \/ Reload

SpecReload == InitReload /\ [][NextReload]_vars

\* C27: after additions, edits and deletions of absence types, loading what
\* was stored gives back the absence-type list the user had.
C27_TypesSurviveReload ==
    (lastOp.op = "reload" /\ Renders(lastOp.before)) =>
        Prop(appData, "absenceTypes") = Prop(lastOp.before, "absenceTypes")

\* C27 for lists of five types or more
C27_HoldsFromFiveTypes ==
    (/\ lastOp.op = "reload"
     /\ Renders(lastOp.before)
     /\ Len(lastOp.before.v.absenceTypes.v) >= 5) =>
        Prop(appData, "absenceTypes") = Prop(lastOp.before, "absenceTypes")

\* a list of five types that is not the initial one (a type deleted, one
\* added, one renamed) has been stored and loaded
C27_Reached ==
    /\ lastOp.op = "reload"
    /\ Renders(lastOp.before)
    /\ Len(lastOp.before.v.absenceTypes.v) = 5
    /\ \E i \in 1..5 : Prop(lastOp.before.v.absenceTypes.v[i], "id") = JStr("1")
    /\ \E i \in 1..5 : /\ Prop(lastOp.before.v.absenceTypes.v[i], "id") = JStr("fisse")
                        /\ Prop(lastOp.before.v.absenceTypes.v[i], "name") = JStr("T")

----------------------------------------------------------------------------
(* The collections the views read *)

ListCollections ==
    {"absences", "absenceTypes", "campaigns", "campaignCategories", "instrumentCategories"}
MapCollections == {"weeklyNotes", "statusOverrides"}

DefinesCollections(document) ==
    /\ document.t = "obj"
    /\ \A k \in ListCollections : Prop(document, k).t = "arr"
    /\ \A k \in MapCollections : Prop(document, k).t = "obj"

\* C28: in every reachable state the snapshot defines absences,
\* absenceTypes, campaigns, campaignCategories, instrumentCategories,
\* weeklyNotes and statusOverrides.
C28_CollectionsDefined == DefinesCollections(appData)

\* C28 for the snapshot the App starts with, from the store or from the
\* hash of a read-only link
C28_HoldsAtStart == ~mounted => DefinesCollections(appData)

\* the App has started in read-only mode from a link whose document holds
\* none of these collections
C28_ReachedFromLink ==
    /\ ~mounted
    /\ isReadOnly
    /\ location.hash.kind = "json"
    /\ \A k \in ListCollections \cup MapCollections :
           Prop(location.hash.value, k).t = "undefined"
    /\ DefinesCollections(appData)

----------------------------------------------------------------------------
(* The weekly campaign layout, src/index.tsx 1569-1623 *)

NoCampaign == "null"            \* a cell of Array(5).fill(null)
CampaignIds == <<"c1", "c2", "c3", "c4">>

\* the five dates of the week of a date, as DashboardView derives them, formatted
WeekDateStringsOf(date) ==
    LET start == getWeekStartDate(getISOWeekYear(date), getISOWeek(date))
    IN [i \in 0..4 |-> formatDate(addDays(start, i))]

\* the filter of activeCampaigns, order kept
ActiveInWeek(campaigns, strs) ==
    SelectSeq(campaigns, LAMBDA c : c.startDate <= strs[4] /\ c.endDate >= strs[0])

\* the comparator handed to sort; durationB subtracts b.endDate from itself
compareCampaigns(a, b) ==
    IF a.startDate # b.startDate
    THEN (IF a.startDate < b.startDate THEN 0 - 1 ELSE 1)
    ELSE LET durationA == ParseDateOnly(a.endDate) - ParseDateOnly(a.startDate)
             durationB == ParseDateOnly(b.endDate) - ParseDateOnly(b.endDate)
         IN durationB - durationA

\* a comparator Array.prototype.sort can rely on
ConsistentComparator(list) ==
    LET S == Range(list)
    IN /\ \A a \in S : compareCampaigns(a, a) = 0
       /\ \A a, b \in S : (compareCampaigns(a, b) < 0) <=> (compareCampaigns(b, a) > 0)
       /\ \A a, b, c \in S :
             (compareCampaigns(a, b) <= 0 /\ compareCampaigns(b, c) <= 0)
                 => compareCampaigns(a, c) <= 0

Orders(n) == {p \in [1..n -> 1..n] : \A i, j \in 1..n : i # j => p[i] # p[j]}

\* the arrays sort may leave: the stable sorted one for a consistent
\* comparator, any order of the elements otherwise
SortResults(list) ==
    LET n == Len(list)
        arranged(p) == [i \in 1..n |-> list[p[i]]]
    IN IF ConsistentComparator(list)
       THEN {arranged(p) : p \in {q \in Orders(n) :
                \A i, j \in 1..n : i < j =>
                    LET c == compareCampaigns(list[q[i]], list[q[j]])
                    IN c < 0 \/ (c = 0 /\ q[i] < q[j])}}
       ELSE {arranged(p) : p \in Orders(n)}

\* weekDates.findIndex(d => formatDate(d) >= campaignStartStr)
firstDay(campaign, strs) ==
    LET hits == {i \in 0..4 : strs[i] >= campaign.startDate}
    IN IF hits = {} THEN 0 - 1 ELSE CHOOSE i \in hits : \A j \in hits : i <= j

\* weekDates.slice().reverse().findIndex(d => formatDate(d) <= campaignEndStr)
lastDayInScope(campaign, strs) ==
    LET reversed == [i \in 0..4 |-> strs[4 - i]]
        hits == {i \in 0..4 : reversed[i] <= campaign.endDate}
    IN IF hits = {} THEN 0 - 1 ELSE CHOOSE i \in hits : \A j \in hits : i <= j

startDayIndex(campaign, strs) ==
    IF firstDay(campaign, strs) > 0 THEN firstDay(campaign, strs) ELSE 0

endDayIndex(campaign, strs) ==
    IF lastDayInScope(campaign, strs) # 0 - 1 THEN 4 - lastDayInScope(campaign, strs) ELSE 0 - 1

\* canPlace: no cell of the row between the two indexes is taken; always true
\* in the second definition
canPlaceAnywhere(row, from, to) == TRUE
canPlace(row, from, to) == \A dayIndex \in from..to : row[dayIndex] = NoCampaign

Filled(row, from, to, campaign) ==
    [dayIndex \in 0..4 |-> IF dayIndex \in from..to THEN campaign.id ELSE row[dayIndex]]

RECURSIVE PlaceInRows(_, _, _, _, _)
\* the loop over the rows from rowIndex on, then the new row
PlaceInRows(layout, rowIndex, campaign, from, to) ==
    IF rowIndex > Len(layout)
    THEN Append(layout, Filled([dayIndex \in 0..4 |-> NoCampaign], from, to, campaign))
    ELSE IF canPlace(layout[rowIndex], from, to)
         THEN [layout EXCEPT ![rowIndex] = Filled(layout[rowIndex], from, to, campaign)]
         ELSE PlaceInRows(layout, rowIndex + 1, campaign, from, to)

RECURSIVE LayoutLoop(_, _, _)
\* for (const campaign of activeCampaigns)
LayoutLoop(layout, activeCampaigns, strs) ==
    IF activeCampaigns = <<>> THEN layout
    ELSE LET campaign == Head(activeCampaigns)
             from == startDayIndex(campaign, strs)
             to == endDayIndex(campaign, strs)
         IN IF to < from
            THEN LayoutLoop(layout, Tail(activeCampaigns), strs)
            ELSE LayoutLoop(PlaceInRows(layout, 1, campaign, from, to),
                            Tail(activeCampaigns), strs)

\* the layouts campaignLayout may return
campaignLayout(campaigns, strs) ==
    {LayoutLoop(<<>>, sorted, strs) : sorted \in SortResults(ActiveInWeek(campaigns, strs))}

\* inputs: one week (30 December 2024 to 3 January 2025) and campaigns that
\* start and end before, in and after it
MaxCampaigns == 2
LayoutDay == 20250101
LayoutDates == {20241227, BaseMonday, LayoutDay, BaseFriday, 20250106}
LayoutCampaignLists ==
    UNION {[1..n -> [startDate : LayoutDates, endDate : LayoutDates]] : n \in 0..MaxCampaigns}

WithIds(list) ==
    [i \in 1..Len(list) |->
        [id |-> CampaignIds[i], startDate |-> list[i].startDate, endDate |-> list[i].endDate]]

InitLayout ==
    /\ tz = 1
    /\ NoWorker
    /\ call \in {[op |-> "campaignLayout", date |-> LayoutDay, campaigns |-> WithIds(l)] :
                    l \in LayoutCampaignLists}
    /\ ret = NoRet
    /\ pc = "call"
    /\ IdleApp

CallCampaignLayout ==
    /\ pc = "call"
    /\ call.op = "campaignLayout"
    /\ \E layout \in campaignLayout(call.campaigns,
                                    WeekDateStringsOf(ParseLocalMidnight(call.date))) :
          ret' = [op |-> "campaignLayout", layout |-> layout]
    /\ pc' = "done"
    /\ UNCHANGED <<tz, swVars, call, dataVars, uiVars, appVars>>

NextLayout == CallCampaignLayout

SpecLayout == InitLayout /\ [][NextLayout]_vars

\* the day indexes of the week on which a campaign is active
ActiveDays(campaign, strs) ==
    {i \in 0..4 : campaign.startDate <= strs[i] /\ strs[i] <= campaign.endDate}

RowsOf(layout, id) == {r \in 1..Len(layout) : \E i \in 0..4 : layout[r][i] = id}

\* C29: in the layout every campaign with startDate <= endDate that is active
\* on one of the week's five dates is in exactly one row, on exactly the day
\* indexes on which it is active, and every cell is empty or holds one
\* campaign of the list.
C29_LayoutPlacesEachCampaign ==
    (pc = "done" /\ call.op = "campaignLayout") =>
        LET strs == WeekDateStringsOf(ParseLocalMidnight(call.date))
            layout == ret.layout
        IN /\ \A k \in 1..Len(call.campaigns) :
                LET c == call.campaigns[k]
                IN (c.startDate <= c.endDate /\ ActiveDays(c, strs) # {}) =>
                      /\ Cardinality(RowsOf(layout, c.id)) = 1
                      /\ \A r \in RowsOf(layout, c.id) :
                            {i \in 0..4 : layout[r][i] = c.id} = ActiveDays(c, strs)
           /\ \A r \in 1..Len(layout) : \A i \in 0..4 :
                layout[r][i] \in {NoCampaign} \cup {call.campaigns[k].id : k \in 1..Len(call.campaigns)}

\* two active campaigns that overlap have been laid out in two rows, in an
\* order the comparator does not determine
C29_Witness ==
    /\ pc = "done"
    /\ call.op = "campaignLayout"
    /\ Len(call.campaigns) = 2
    /\ call.campaigns[1].startDate = BaseMonday
    /\ call.campaigns[1].endDate = LayoutDay
    /\ call.campaigns[2].startDate = BaseMonday
    /\ call.campaigns[2].endDate = BaseFriday
    /\ Len(ret.layout) = 2
    /\ ret.layout[1][0] = "c2"
    /\ ret.layout[2][4] = NoCampaign

\* two active campaigns that do not overlap share a row
C29_SharedRow ==
    /\ pc = "done"
    /\ call.op = "campaignLayout"
    /\ Len(call.campaigns) = 2
    /\ Len(ret.layout) = 1
    /\ ret.layout[1][0] = "c2"
    /\ ret.layout[1][4] = "c1"

----------------------------------------------------------------------------
(* The service worker, src/sw.js *)

\* the URLs of URLS_TO_CACHE considered, and one URL outside the list
URLS_TO_CACHE == {"/", "/index.html"}
Urls == URLS_TO_CACHE \cup {"/data"}

\* a Request: its URL and method
Requests == [url : Urls, method : {"GET"}] \cup {[url |-> "/data", method |-> "POST"]}

\* a Response; status 0 is the opaque response of a no-cors request
Statuses == {200, 404, 0}
Response(url, status) == [kind |-> "response", url |-> url, status |-> status]
NoResponse == [kind |-> "undefined"]
Rejected == [kind |-> "rejected"]

EmptyCaches == [url \in Urls |-> NoResponse]

\* caches.match(request): the entry stored for the URL of a GET request
CachesMatch(storage, request) ==
    IF request.method = "GET" THEN storage[request.url] ELSE NoResponse

\* cache.put(request, response): rejects for a request that is not a GET
CachePut(storage, request, response) ==
    IF request.method = "GET" THEN [storage EXCEPT ![request.url] = response] ELSE storage

\* the test before the copy is made: !networkResponse || networkResponse.status !== 200,
\* negated; the second definition copies every response
IsAnyResponse(networkResponse) == networkResponse.kind = "response"
IsValidResponse(networkResponse) ==
    networkResponse.kind = "response" /\ networkResponse.status = 200

MaxFetchEvents == 2

InitWorker ==
    /\ tz = 1
    /\ worker = "installing"
    /\ caches = EmptyCaches
    /\ fetchEvents = <<>>
    /\ call = NoOp /\ ret = NoRet /\ pc = "idle"
    /\ IdleApp

swUnchanged == <<tz, calVars, dataVars, uiVars, appVars>>

\* install: cache.addAll(URLS_TO_CACHE) stores every URL of the list
InstallResolved ==
    /\ worker = "installing"
    /\ caches' = [url \in Urls |-> IF url \in URLS_TO_CACHE THEN Response(url, 200)
                                   ELSE caches[url]]
    /\ worker' = "activated"
    /\ UNCHANGED <<fetchEvents, swUnchanged>>

\* install: one of the requests of addAll fails, nothing is stored and the
\* worker is discarded
InstallRejected ==
    /\ worker = "installing"
    /\ worker' = "redundant"
    /\ UNCHANGED <<caches, fetchEvents, swUnchanged>>

\* a fetch event: respondWith(caches.match(event.request).then(..))
DispatchFetch(request) ==
    /\ worker = "activated"
    /\ Len(fetchEvents) < MaxFetchEvents
    /\ fetchEvents' = Append(fetchEvents,
           [request |-> request, pc |-> "match", networkResponse |-> NoResponse,
            answer |-> NoResponse])
    /\ UNCHANGED <<worker, caches, swUnchanged>>

\* the callback of caches.match: a hit is the answer, a miss calls fetch
MatchResolved(i) ==
    /\ fetchEvents[i].pc = "match"
    /\ LET response == CachesMatch(caches, fetchEvents[i].request)
       IN fetchEvents' =
            IF response # NoResponse
            THEN [fetchEvents EXCEPT ![i].answer = response, ![i].pc = "done"]
            ELSE [fetchEvents EXCEPT ![i].pc = "fetch"]
    /\ UNCHANGED <<worker, caches, swUnchanged>>

\* the callback of fetch: the network response is the answer; a valid one
\* is cloned and caches.open is called
FetchResolved(i, status) ==
    /\ fetchEvents[i].pc = "fetch"
    /\ LET networkResponse == Response(fetchEvents[i].request.url, status)
       IN fetchEvents' =
            [fetchEvents EXCEPT ![i].networkResponse = networkResponse,
                                ![i].answer = networkResponse,
                                ![i].pc = IF IsValidResponse(networkResponse)
                                          THEN "open" ELSE "done"]
    /\ UNCHANGED <<worker, caches, swUnchanged>>

\* fetch rejects (no network): respondWith receives the rejection
FetchRejected(i) ==
    /\ fetchEvents[i].pc = "fetch"
    /\ fetchEvents' = [fetchEvents EXCEPT ![i].answer = Rejected, ![i].pc = "done"]
    /\ UNCHANGED <<worker, caches, swUnchanged>>

\* the callback of caches.open: cache.put(event.request, responseToCache)
OpenResolved(i) ==
    /\ fetchEvents[i].pc = "open"
    /\ caches' = CachePut(caches, fetchEvents[i].request, fetchEvents[i].networkResponse)
    /\ fetchEvents' = [fetchEvents EXCEPT ![i].pc = "done"]
    /\ UNCHANGED <<worker, swUnchanged>>

NextWorker ==
    \/ InstallResolved
    \/ InstallRejected
    \/ \E request \in Requests : DispatchFetch(request)
    \/ \E i \in 1..Len(fetchEvents) : MatchResolved(i)
    \/ \E i \in 1..Len(fetchEvents), status \in Statuses : FetchResolved(i, status)
    \/ \E i \in 1..Len(fetchEvents) : FetchRejected(i)
    \/ \E i \in 1..Len(fetchEvents) : OpenResolved(i)

SpecWorker == InitWorker /\ [][NextWorker]_vars

\* a response kept in the cache storage for a request
CachedFor(request) ==
    IF request.method = "GET" /\ caches[request.url].kind = "response"
    THEN {caches[request.url]} ELSE {}

\* C30: a fetch event whose request has a cached response at the lookup is
\* answered with that response and never reaches the network; on a miss the
\* answer, when it comes, is what the network returned; and an entry of the
\* cache changes only at install or to the copy of the
\* status-200 network response of an event that missed, under its URL.
C30_FetchHandler ==
    [][/\ \A i \in 1..Len(fetchEvents) :
            LET e == fetchEvents[i]
                f == fetchEvents'[i]
            IN /\ (e.pc = "match" /\ f.pc # "match") =>
                     IF CachedFor(e.request) # {}
                     THEN f.answer \in CachedFor(e.request) /\ f.pc = "done"
                          /\ f.networkResponse = NoResponse
                     ELSE f.pc = "fetch" /\ f.answer = NoResponse
               /\ (e.pc = "fetch" /\ f.pc # "fetch") =>
                     /\ f.answer \in {Rejected} \cup
                            {Response(e.request.url, status) : status \in Statuses}
                     /\ f.answer # Rejected => f.answer = f.networkResponse
               /\ (e.pc \in {"open", "done"}) => f.answer = e.answer
       /\ \A url \in Urls :
            (caches'[url] # caches[url] /\ worker = "activated") =>
                \E i \in 1..Len(fetchEvents) :
                    /\ fetchEvents[i].pc = "open"
                    /\ fetchEvents[i].request.url = url
                    /\ fetchEvents[i].answer = fetchEvents[i].networkResponse
                    /\ fetchEvents[i].networkResponse.status = 200
                    /\ caches'[url] = fetchEvents[i].networkResponse]_vars

\* one event missed, was answered by the network with status 200 and left its
\* copy in the cache; a later event for the same URL was answered from the cache
C30_Witness ==
    /\ Len(fetchEvents) = 2
    /\ fetchEvents[1].request = [url |-> "/data", method |-> "GET"]
    /\ fetchEvents[1].networkResponse = Response("/data", 200)
    /\ fetchEvents[1].pc = "done"
    /\ fetchEvents[2].request = fetchEvents[1].request
    /\ fetchEvents[2].pc = "done"
    /\ fetchEvents[2].networkResponse = NoResponse
    /\ fetchEvents[2].answer = Response("/data", 200)

\* a miss answered with a 404 leaves the cache without an entry for the URL
C30_NotStored ==
    /\ Len(fetchEvents) = 1
    /\ fetchEvents[1].pc = "done"
    /\ fetchEvents[1].answer = Response("/data", 404)
    /\ caches["/data"] = NoResponse

====
